---- MODULE Spec2Model ----
(***************************************************************************)
(* Notebook schema: base-36 fractional index algebra, rebalancing planner, *)
(* cell operations and the event materializers.                            *)
(*                                                                         *)
(* Strings are sequences of ASCII codes, so that string comparison is the  *)
(* byte-wise (binary collation) order the code relies on.  The empty       *)
(* sequence stands for "", null and undefined alike: every place of the    *)
(* code that reads an optional index tests it with !x or (x || "").        *)
(***************************************************************************)
EXTENDS Integers, Sequences, FiniteSets, TLC

VARIABLES
    a,      \* lower bound handed to the index algebra ("" when absent)
    b,      \* upper bound handed to the index algebra ("" when absent)
    op,     \* the function called last
    ret,    \* what that call returned or threw
    allCells,        \* the cell list handed to the planner and cell operations
    jitterProvider,  \* the jitter provider handed to them
    args,            \* the remaining arguments of the call
    cells,           \* table cells: id -> row
    outputs,         \* table outputs: id -> row
    pendingClears,   \* table pendingClears: cellId -> row
    executionQueue,  \* table executionQueue: id -> row
    presence,        \* table presence: userId -> cellId
    outputDeltas,    \* table outputDeltas: id -> row
    runtimeSessions  \* table runtimeSessions: sessionId -> row

callVars == <<a, b, op, ret, allCells, jitterProvider, args>>
tableVars == <<cells, outputs, pendingClears, executionQueue, presence,
               outputDeltas, runtimeSessions>>
vars == <<a, b, op, ret, allCells, jitterProvider, args,
          cells, outputs, pendingClears, executionQueue, presence,
          outputDeltas, runtimeSessions>>

----------------------------------------------------------------------------
(* Bounds *)

\* longest index string drawn as an input of the index algebra
MaxLen == 3

\* longest cell list handed to the planner and the cell operations
MaxCells == 3

\* largest bufferCells option handed to the planner
MaxBuffer == 2

\* longest script of draws of a jitter provider
MaxScript == 2

\* number of output ids the committed output events draw from
MaxOutputs == 2

\* largest executionCount the committed execution events carry
MaxCount == 2

\* longest index string drawn when characters outside 0-9a-z are among them
MaxBadLen == 2

\* number of calls made with each seeded jitter provider
MaxCalls == 3

\* greatest sequence number of the deltas appended to an output
MaxDeltas == 3

\* number of v1 appends an output takes
MaxAppends == 2

----------------------------------------------------------------------------
(* Strings *)

Min(x, y) == IF x < y THEN x ELSE y

\* JS  s < t  on strings: code-unit lexicographic order
StrLess(s, t) ==
    \/ /\ Len(s) < Len(t)
       /\ \A k \in 1..Len(s) : s[k] = t[k]
    \/ \E i \in 1..Min(Len(s), Len(t)) :
          /\ \A k \in 1..(i - 1) : s[k] = t[k]
          /\ s[i] < t[i]

\* s.substring(from, to) with 0-based, end-exclusive positions
substring(s, from, to) == SubSeq(s, from + 1, to)

\* "0".repeat(n)
RECURSIVE repeat(_, _)
repeat(c, n) == IF n <= 0 THEN <<>> ELSE <<c>> \o repeat(c, n - 1)

\* results of the functions that may throw
Ok(v) == [err |-> "none", val |-> v]
Err(kind) == [err |-> kind, val |-> <<>>]

----------------------------------------------------------------------------
(* Index algebra *)

BASE36_DIGITS ==
    <<48, 49, 50, 51, 52, 53, 54, 55, 56, 57,
      97, 98, 99, 100, 101, 102, 103, 104, 105, 106, 107, 108, 109,
      110, 111, 112, 113, 114, 115, 116, 117, 118, 119, 120, 121, 122>>

BASE == Len(BASE36_DIGITS)

\* ASCII codes of the characters the code names literally
Char0 == BASE36_DIGITS[1]
CharA == BASE36_DIGITS[11]
CharH == BASE36_DIGITS[18]
CharM == BASE36_DIGITS[23]
CharO == BASE36_DIGITS[25]
CharZ == BASE36_DIGITS[36]

\* BASE36_DIGITS.indexOf(char); -1 makes the caller throw "Invalid character"
charToValue(char) ==
    IF \E v \in 1..BASE : BASE36_DIGITS[v] = char
    THEN (CHOOSE v \in 1..BASE : BASE36_DIGITS[v] = char) - 1
    ELSE -1

valueToChar(value) == BASE36_DIGITS[value + 1]

\* Math.floor(x / 2) for x >= 0
floorHalf(x) == x \div 2

generateKeyAfter(s) ==
    IF Len(s) = 0 THEN Ok(<<CharM>>)
    ELSE
      \* 0-based position of the last character that is not 'z', or -1
      LET nz == {k \in 1..Len(s) : s[k] # CharZ}
          i  == IF nz = {} THEN -1
                ELSE (CHOOSE k \in nz : \A j \in nz : j <= k) - 1
      IN IF i = -1 THEN Ok(s \o <<CharH>>)
         ELSE LET prefix == substring(s, 0, i)
                  val    == charToValue(s[i + 1])
              IN IF val = -1 THEN Err("InvalidCharacter")
                 ELSE IF val < BASE - 2
                      THEN Ok(prefix \o <<valueToChar(val + 1)>>)
                      ELSE Ok(s \o <<CharH>>)

generateKeyBefore(s) ==
    IF Len(s) = 0 THEN Ok(<<CharM>>)
    ELSE
      \* 0-based position of the first character that is not '0', or s.length
      LET nz == {k \in 1..Len(s) : s[k] # Char0}
          i  == IF nz = {} THEN Len(s)
                ELSE (CHOOSE k \in nz : \A j \in nz : k <= j) - 1
      IN IF i = Len(s) THEN Ok(<<Char0>> \o s)
         ELSE LET val    == charToValue(s[i + 1])
                  prefix == substring(s, 0, i)
              IN IF val = -1 THEN Err("InvalidCharacter")
                 ELSE IF i = 0 /\ val > 1
                      THEN Ok(<<valueToChar(floorHalf(val))>>)
                 ELSE IF val > 1
                      THEN Ok(prefix \o <<valueToChar(floorHalf(val))>>)
                 ELSE Ok(prefix \o <<Char0, CharH>>)

\* keyBetweenPrefix without the handling of a run of zeros in b
keyBetweenPrefix_NoZeroRun(s, t, i) ==
    LET nextVal == charToValue(t[i + 1])
    IN IF nextVal = -1 THEN Err("InvalidCharacter")
       ELSE IF nextVal > 1 THEN Ok(s \o <<valueToChar(floorHalf(nextVal))>>)
       ELSE IF nextVal = 1 THEN Ok(s \o <<Char0>>)
       ELSE Err("NoStringBetween")

\* the branch of generateKeyBetween taken when a is a proper prefix of b;
\* i = a.length (0-based position of the first character of b past a)
keyBetweenPrefix(s, t, i) ==
    LET nextVal == charToValue(t[i + 1])
    IN IF nextVal = -1 THEN Err("InvalidCharacter")
       ELSE IF nextVal > 0
            THEN LET midVal == floorHalf(nextVal)
                 IN IF midVal > 0 THEN Ok(s \o <<valueToChar(midVal)>>)
                    ELSE Ok(s \o <<Char0>>)
       ELSE IF Len(t) > i + 1
            THEN \* j: 0-based position of the first non-'0' of b from i on
                 LET nz == {k \in (i + 1)..Len(t) : t[k] # Char0}
                     j  == IF nz = {} THEN Len(t)
                           ELSE (CHOOSE k \in nz : \A m \in nz : k <= m) - 1
                     zeroCount == j - i
                 IN IF j = Len(t) /\ zeroCount > 1
                    THEN Ok(s \o repeat(Char0, floorHalf(zeroCount)))
                    ELSE IF j < Len(t)
                         THEN LET v2 == charToValue(t[j + 1])
                              IN IF v2 = -1 THEN Err("InvalidCharacter")
                                 ELSE IF v2 > 0
                                      THEN Ok(s \o repeat(Char0, j - i)
                                                \o <<valueToChar(floorHalf(v2))>>)
                                      ELSE Err("NoStringBetween")
                         ELSE Err("NoStringBetween")
            ELSE Err("NoStringBetween")

\* the branch of generateKeyBetween taken when a and b differ at position i
keyBetweenDiffer(s, t, i) ==
    LET aVal == charToValue(s[i + 1])
        bVal == charToValue(t[i + 1])
    IN IF aVal = -1 \/ bVal = -1 THEN Err("InvalidCharacter")
       ELSE IF bVal - aVal > 1
            THEN Ok(substring(s, 0, i)
                      \o <<valueToChar(floorHalf(aVal + bVal))>>
                      \o substring(s, i + 1, Len(s)))
       ELSE IF i < Len(s) - 1
            THEN LET suffix == generateKeyAfter(substring(s, i + 1, Len(s)))
                 IN IF suffix.err # "none" THEN suffix
                    ELSE Ok(substring(s, 0, i + 1) \o suffix.val)
       ELSE Ok(substring(s, 0, i + 1) \o <<CharH>>)

\* generateKeyBetween answering the unbounded case with the top digit
generateKeyBetween_TopOfRange(s, t) ==
    IF Len(s) = 0 /\ Len(t) = 0 THEN Ok(<<CharZ>>)
    ELSE IF Len(s) = 0 THEN generateKeyBefore(t)
    ELSE IF Len(t) = 0 THEN generateKeyAfter(s)
    ELSE IF ~StrLess(s, t) THEN Err("InvalidRange")
    ELSE
      LET diff == {k \in 1..Min(Len(s), Len(t)) : s[k] # t[k]}
          i    == IF diff = {} THEN Min(Len(s), Len(t))
                  ELSE (CHOOSE k \in diff : \A m \in diff : k <= m) - 1
      IN IF i = Len(s) THEN keyBetweenPrefix(s, t, i)
         ELSE IF i = Len(t) THEN Err("InvalidCase")
         ELSE keyBetweenDiffer(s, t, i)

generateKeyBetween(s, t) ==
    IF Len(s) = 0 /\ Len(t) = 0 THEN Ok(<<CharM>>)
    ELSE IF Len(s) = 0 THEN generateKeyBefore(t)
    ELSE IF Len(t) = 0 THEN generateKeyAfter(s)
    ELSE IF ~StrLess(s, t) THEN Err("InvalidRange")
    ELSE
      \* i: length of the longest common prefix
      LET diff == {k \in 1..Min(Len(s), Len(t)) : s[k] # t[k]}
          i    == IF diff = {} THEN Min(Len(s), Len(t))
                  ELSE (CHOOSE k \in diff : \A m \in diff : k <= m) - 1
      IN IF i = Len(s) THEN keyBetweenPrefix(s, t, i)
         ELSE IF i = Len(t) THEN Err("InvalidCase")
         ELSE keyBetweenDiffer(s, t, i)

\* length cap and probability (in percent) of the jitter extension
JitterMaxLen == 10
JitterPercent == 30

\* A JitterProvider is modelled as a script of draws read cyclically:
\* random() yields draws[pos].random percent, randomInt(BASE) yields
\* draws[pos].randomInt, and each call moves pos on.
jitterDraw(jp) == jp.draws[jp.pos]
jitterNext(jp) ==
    [jp EXCEPT !.pos = IF jp.pos >= Len(jp.draws) THEN 1 ELSE jp.pos + 1]

\* { random: () => 0, randomInt: () => 0 }
zeroJitter == [draws |-> <<[random |-> 0, randomInt |-> 0]>>, pos |-> 1]

\* candidateInBounds without the check against the upper bound
candidateInBounds_NoUpper(s, t, candidate) ==
    Len(s) = 0 \/ StrLess(s, candidate)

\* the bounds check of fractionalIndexBetween on the extended key
candidateInBounds(s, t, candidate) ==
    /\ (Len(s) = 0 \/ StrLess(s, candidate))
    /\ (Len(t) = 0 \/ StrLess(candidate, t))

\* jitterKey without the limit on the length of the key it extends
jitterKey_NoLengthLimit(s, t, jp, key) ==
    IF key.err # "none" THEN [err |-> key.err, val |-> <<>>, jp |-> jp]
    ELSE LET jp1 == jitterNext(jp)
         IN IF jitterDraw(jp).random < JitterPercent
            THEN LET suffix    == valueToChar(jitterDraw(jp1).randomInt)
                     candidate == key.val \o <<suffix>>
                     jp2       == jitterNext(jp1)
                 IN IF candidateInBounds(s, t, candidate)
                    THEN [err |-> "none", val |-> candidate, jp |-> jp2]
                    ELSE [err |-> "none", val |-> key.val, jp |-> jp2]
            ELSE [err |-> "none", val |-> key.val, jp |-> jp1]

\* fractionalIndexBetween once generateKeyBetween has returned key (or
\* thrown): the jitter extension of the key
jitterKey(s, t, jp, key) ==
    IF key.err # "none" THEN [err |-> key.err, val |-> <<>>, jp |-> jp]
    ELSE LET jp1 == jitterNext(jp)
         IN IF jitterDraw(jp).random < JitterPercent
               /\ Len(key.val) < JitterMaxLen
            THEN LET suffix    == valueToChar(jitterDraw(jp1).randomInt)
                     candidate == key.val \o <<suffix>>
                     jp2       == jitterNext(jp1)
                 IN IF candidateInBounds(s, t, candidate)
                    THEN [err |-> "none", val |-> candidate, jp |-> jp2]
                    ELSE [err |-> "none", val |-> key.val, jp |-> jp2]
            ELSE [err |-> "none", val |-> key.val, jp |-> jp1]

\* returns [err, val, jp]: the key (or the error thrown) and the provider
\* after the draws the call consumed
fractionalIndexBetween(s, t, jp) ==
    jitterKey(s, t, jp, generateKeyBetween(s, t))

isValidFractionalIndex(index) ==
    /\ Len(index) > 0
    /\ \A k \in 1..Len(index) : charToValue(index[k]) # -1

\* validateFractionalIndexOrder comparing the entries as they are listed
validateFractionalIndexOrder_NoFilter(indices) ==
    \A i \in 2..Len(indices) : StrLess(indices[i - 1], indices[i])

\* indices.filter(isValidFractionalIndex(idx || "")), then prev < curr for
\* each pair of neighbours left
validateFractionalIndexOrder(indices) ==
    LET validIndices == SelectSeq(indices, isValidFractionalIndex)
    IN \A i \in 2..Len(validIndices) :
          /\ Len(validIndices[i - 1]) > 0
          /\ Len(validIndices[i]) > 0
          /\ StrLess(validIndices[i - 1], validIndices[i])

RECURSIVE generateLoop(_, _, _, _, _)

\* generateStep that never moves prev on to the key just generated
generateStep_StalePrev(prev, t, n, keys, key) ==
    IF key.err # "none"
    THEN [err |-> key.err, keys |-> <<>>, jp |-> key.jp]
    ELSE generateLoop(prev, t, n - 1, key.jp, Append(keys, key.val))

\* one round of the loop, key being what fractionalIndexBetween(prev, b)
\* returned: keys.push(key); prev = key
generateStep(prev, t, n, keys, key) ==
    IF key.err # "none"
    THEN [err |-> key.err, keys |-> <<>>, jp |-> key.jp]
    ELSE generateLoop(key.val, t, n - 1, key.jp, Append(keys, key.val))

\* the loop of generateFractionalIndices; returns [err, keys, jp]
generateLoop(prev, t, n, jp, keys) ==
    IF n <= 0 THEN [err |-> "none", keys |-> keys, jp |-> jp]
    ELSE generateStep(prev, t, n, keys, fractionalIndexBetween(prev, t, jp))

generateFractionalIndices(s, t, n, jp) == generateLoop(s, t, n, jp, <<>>)

----------------------------------------------------------------------------
(* The seeded test jitter provider *)

\* createTestJitterProvider keeps currentSeed in a closure and steps it with
\*   currentSeed = (currentSeed * 1103515245 + 12345) & 0x7fffffff
\* in IEEE double arithmetic: the product and the sum are each rounded to 53
\* significant bits before & takes the value modulo 2^31.  Numbers above 2^31
\* are held as little-endian sequences of 11-bit limbs.
LcgMultiplier == 1103515245
LcgIncrement == 12345
LcgModulus == 2147483647
LimbBase == 2048
MantissaBits == 53

pow2(n) == IF n = 0 THEN 1 ELSE IF n = 1 THEN 2 ELSE IF n = 2 THEN 4
           ELSE IF n = 3 THEN 8 ELSE IF n = 4 THEN 16 ELSE IF n = 5 THEN 32
           ELSE IF n = 6 THEN 64 ELSE IF n = 7 THEN 128 ELSE IF n = 8 THEN 256
           ELSE IF n = 9 THEN 512 ELSE IF n = 10 THEN 1024 ELSE 2048

\* the three limbs of 0 <= n < 2^31
toLimbs(n) ==
    <<n % LimbBase, (n \div LimbBase) % LimbBase, n \div (LimbBase * LimbBase)>>

\* carry propagation: limb values below LimbBase, one more limb than given
RECURSIVE carryFrom(_, _, _)
carryFrom(raw, i, carry) ==
    IF i > Len(raw) THEN <<carry>>
    ELSE <<(raw[i] + carry) % LimbBase>>
         \o carryFrom(raw, i + 1, (raw[i] + carry) \div LimbBase)

\* the exact product of two three-limb numbers, as seven limbs
mulLimbs(x, y) ==
    carryFrom([k \in 1..5 |->
                 LET pairs == {i \in 1..3 : k + 1 - i \in 1..3}
                     term(i) == IF i \in pairs THEN x[i] * y[k + 1 - i] ELSE 0
                 IN term(1) + term(2) + term(3)],
              1, 0)

\* the exact sum of a limb number and a small integer
addLimbs(x, n) == carryFrom([k \in 1..Len(x) |-> IF k = 1 THEN x[1] + n ELSE x[k]],
                            1, 0)

\* number of significant bits of 0 <= n < LimbBase
RECURSIVE bitsOf(_)
bitsOf(n) == IF n = 0 THEN 0 ELSE 1 + bitsOf(n \div 2)

\* number of significant bits of a limb number
bitLength(x) ==
    LET nonZero == {k \in 1..Len(x) : x[k] # 0}
        top == CHOOSE k \in nonZero : \A j \in nonZero : j <= k
    IN IF nonZero = {} THEN 0 ELSE 11 * (top - 1) + bitsOf(x[top])

\* the nearest double (ties to even) of a limb number below 2^64: the bits
\* beyond the 53 most significant ones all lie in the lowest limb
roundToDouble(x) ==
    LET drop == bitLength(x) - MantissaBits
    IN IF drop <= 0 THEN x
       ELSE LET unit == pow2(drop)
                low  == x[1] % unit
                odd  == (x[1] \div unit) % 2 = 1
                up   == low * 2 > unit \/ (low * 2 = unit /\ odd)
            IN addLimbs([x EXCEPT ![1] = x[1] - low], IF up THEN unit ELSE 0)

\* ToInt32(x) & 0x7fffffff: the value modulo 2^31
toInt31(x) == x[1] + x[2] * LimbBase + (x[3] % 512) * (LimbBase * LimbBase)

\* one step of the generator: the next currentSeed
nextSeed(currentSeed) ==
    toInt31(roundToDouble(
        addLimbs(roundToDouble(mulLimbs(toLimbs(currentSeed),
                                        toLimbs(LcgMultiplier))),
                 LcgIncrement)))

\* Math.floor(nextRandom() * d) for the draw v = currentSeed after the step,
\* nextRandom() being v / 0x7fffffff: the largest q with q * 0x7fffffff <= v * d
scaledDraw(v, d) ==
    LET reached(q) ==
            v >= q * (LcgModulus \div d) + (q * (LcgModulus % d) + d - 1) \div d
    IN CHOOSE q \in 0..d : reached(q) /\ (q = d \/ ~reached(q + 1))

\* const createTestJitterProvider = (seed = 0) => { let currentSeed = seed; ... }
createTestJitterProvider(seed) == [currentSeed |-> seed]

\* the draws one call of fractionalIndexBetween can take from the provider,
\* as a script: random() from the first step of the generator, randomInt(BASE)
\* from the second; the third entry is never read
seededScript(provider) ==
    [draws |-> <<[random |-> scaledDraw(nextSeed(provider.currentSeed), 100),
                  randomInt |-> 0],
                 [random |-> 0,
                  randomInt |-> scaledDraw(
                      nextSeed(nextSeed(provider.currentSeed)), BASE)],
                 [random |-> 0, randomInt |-> 0]>>,
     pos |-> 1]

\* the provider after a call that left the script at position pos: one step
\* of the generator for each draw taken
seededAfter(provider, pos) ==
    [currentSeed |->
        IF pos = 1 THEN provider.currentSeed
        ELSE IF pos = 2 THEN nextSeed(provider.currentSeed)
        ELSE nextSeed(nextSeed(provider.currentSeed))]

\* fractionalIndexBetween(a, b, provider): [err, val, provider]
seededReturn(provider, r) ==
    [err |-> r.err, val |-> r.val, provider |-> seededAfter(provider, r.jp.pos)]
fractionalIndexBetweenSeeded(s, t, provider) ==
    seededReturn(provider, fractionalIndexBetween(s, t, seededScript(provider)))

----------------------------------------------------------------------------
(* Rebalancing planner *)

\* A CellReference is [id, fractionalIndex, cellType]; an optional reference
\* is <<>> (null) or <<ref>>.

\* The order String.prototype.localeCompare gives the ASCII characters (the
\* root collation of ICU): white space, punctuation, symbols, "$", the
\* digits, then the letters with "a" and "A" in one place.  The other control
\* characters are ignored by the comparison.
CollationOrder ==
    <<9, 10, 11, 12, 13, 32,
      95, 45, 44, 59, 58, 33, 63, 46, 39, 34, 40, 41, 91, 93, 123, 125,
      64, 42, 47, 92, 38, 35, 37,
      96, 94, 43, 60, 61, 62, 124, 126,
      36,
      48, 49, 50, 51, 52, 53, 54, 55, 56, 57>>

\* the place of a character in that order, 0 for an ignored character
collationRank(c) ==
    IF c >= 97 /\ c <= 122 THEN Len(CollationOrder) + (c - 96)
    ELSE IF c >= 65 /\ c <= 90 THEN Len(CollationOrder) + (c - 64)
    ELSE IF \E k \in 1..Len(CollationOrder) : CollationOrder[k] = c
    THEN CHOOSE k \in 1..Len(CollationOrder) : CollationOrder[k] = c
    ELSE 0

\* s.localeCompare(t) < 0: the ignored characters left out, the strings are
\* compared by the places of their characters; strings equal in that are
\* told apart by the first character that differs in case, the lower-case
\* one first
localeCompareLess(s, t) ==
    LET isCollated(c) == collationRank(c) # 0
        x == SelectSeq(s, isCollated)
        y == SelectSeq(t, isCollated)
        common == Min(Len(x), Len(y))
        samePlaces(n) ==
            \A k \in 1..n : collationRank(x[k]) = collationRank(y[k])
    IN \/ Len(x) < Len(y) /\ samePlaces(Len(x))
       \/ \E i \in 1..common :
             /\ samePlaces(i - 1)
             /\ collationRank(x[i]) < collationRank(y[i])
       \/ /\ Len(x) = Len(y)
          /\ samePlaces(common)
          /\ \E i \in 1..common :
                /\ \A k \in 1..(i - 1) : x[k] = y[k]
                /\ x[i] > y[i]

\* [...cells].sort((x, y) => (x.fractionalIndex || "").localeCompare(...)):
\* a stable sort, each cell going behind the cells that do not sort after it
insertByIndex(sorted, cell) ==
    LET k == Cardinality({j \in 1..Len(sorted) :
                 ~localeCompareLess(cell.fractionalIndex,
                                    sorted[j].fractionalIndex)})
    IN SubSeq(sorted, 1, k) \o <<cell>> \o SubSeq(sorted, k + 1, Len(sorted))

RECURSIVE sortCells(_)
sortCells(list) ==
    IF list = <<>> THEN <<>>
    ELSE insertByIndex(sortCells(SubSeq(list, 1, Len(list) - 1)),
                       list[Len(list)])

\* newIndices.sort() on strings
insertString(sorted, str) ==
    LET k == Cardinality({j \in 1..Len(sorted) : ~StrLess(str, sorted[j])})
    IN SubSeq(sorted, 1, k) \o <<str>> \o SubSeq(sorted, k + 1, Len(sorted))

RECURSIVE sortStrings(_)
sortStrings(strs) ==
    IF strs = <<>> THEN <<>>
    ELSE insertString(sortStrings(SubSeq(strs, 1, Len(strs) - 1)),
                      strs[Len(strs)])

\* the errors the rebalancing code recognises by their message
IsCrowdedError(err) == err \in {"NoStringBetween", "InvalidRange"}

\* insertPosition = -1 stands for undefined
needsRebalancing(list, insertPosition) ==
    IF Len(list) < 2 THEN FALSE
    ELSE LET sortedCells == sortCells(list)
             crowded(s, t) ==
                 IsCrowdedError(fractionalIndexBetween(s, t, zeroJitter).err)
         IN \/ \E i \in 1..(Len(sortedCells) - 1) :
                  /\ sortedCells[i].fractionalIndex # <<>>
                  /\ sortedCells[i + 1].fractionalIndex # <<>>
                  /\ crowded(sortedCells[i].fractionalIndex,
                             sortedCells[i + 1].fractionalIndex)
            \/ /\ insertPosition # -1
               /\ insertPosition > 0
               /\ insertPosition - 1 < Len(sortedCells)
               /\ insertPosition < Len(sortedCells)
               /\ crowded(sortedCells[insertPosition].fractionalIndex,
                          sortedCells[insertPosition + 1].fractionalIndex)

cellMoved2(id, fractionalIndex, actorId) ==
    [name |-> "v2.CellMoved", id |-> id, fractionalIndex |-> fractionalIndex,
     actorId |-> actorId]

DefaultBufferCells == 2

\* changedIndices without the comparison with the index the cell holds
changedIndices_Every(sortedCells, keys, bufferCells, i) ==
    [k \in 1..(Len(sortedCells) + 1 - i) |->
        [cellId |-> sortedCells[k + i - 1].id,
         fractionalIndex |-> keys[k + i - 1 + bufferCells]]]

\* the assignment loop of rebalanceCellIndices: from position i on, the
\* cells whose index differs from the generated one, with their new index
RECURSIVE changedIndices(_, _, _, _)
changedIndices(sortedCells, keys, bufferCells, i) ==
    IF i > Len(sortedCells) THEN <<>>
    ELSE (IF /\ i + bufferCells <= Len(keys)
             /\ sortedCells[i].fractionalIndex # keys[i + bufferCells]
          THEN <<[cellId |-> sortedCells[i].id,
                  fractionalIndex |-> keys[i + bufferCells]]>>
          ELSE <<>>)
         \o changedIndices(sortedCells, keys, bufferCells, i + 1)

\* the RebalanceResult for the cells whose index changes
rebalanceResultOf(newIndices, actorId, jp) ==
    [err |-> "none",
     newIndices |-> newIndices,
     events |-> [k \in 1..Len(newIndices) |->
                   cellMoved2(newIndices[k].cellId,
                              newIndices[k].fractionalIndex, actorId)],
     jp |-> jp]

\* rebalanceCellIndices once the indices are generated (or the generation
\* has thrown)
assignIndices(sortedCells, indices, actorId, bufferCells) ==
    IF indices.err # "none"
    THEN [err |-> indices.err, newIndices |-> <<>>, events |-> <<>>,
          jp |-> indices.jp]
    ELSE rebalanceResultOf(
             changedIndices(sortedCells, indices.keys, bufferCells, 1),
             actorId, indices.jp)

\* returns [err, newIndices, events, jp]; newIndices and events list, in
\* sorted order, the cells whose index changes
rebalanceCellIndices(list, jp, actorId, bufferCells) ==
    IF Len(list) = 0
    THEN [err |-> "none", newIndices |-> <<>>, events |-> <<>>, jp |-> jp]
    ELSE assignIndices(
             sortCells(list),
             generateFractionalIndices(<<>>, <<>>,
                                       Len(list) + bufferCells * 2, jp),
             actorId, bufferCells)

\* returns [err, val, jp]
calculateInsertionIndexAfterRebalancing(insertPosition, rebalanceResult, jp) ==
    LET newIndices ==
            sortStrings([k \in 1..Len(rebalanceResult.newIndices) |->
                            rebalanceResult.newIndices[k].fractionalIndex])
        at(k) == IF k >= 1 /\ k <= Len(newIndices) THEN newIndices[k] ELSE <<>>
        \* the two indices the branch taken hands to fractionalIndexBetween
        range == IF insertPosition = 0 THEN <<<<>>, at(1)>>
                 ELSE IF insertPosition >= Len(newIndices)
                      THEN <<at(Len(newIndices)), <<>>>>
                      ELSE <<at(insertPosition), at(insertPosition + 1)>>
    IN fractionalIndexBetween(range[1], range[2], jp)

\* an empty RebalanceResult
noRebalance == [err |-> "none", newIndices |-> <<>>, events |-> <<>>,
                jp |-> zeroJitter]

\* the function throwing err
fallbackThrows(err) ==
    [err |-> err, index |-> <<>>, needsRebalancing |-> FALSE,
     rebalanceResult |-> noRebalance]

\* the return after rebalancing, insertionIndex being what
\* calculateInsertionIndexAfterRebalancing returned
fallbackReturn(rebalanceResult, insertionIndex) ==
    IF insertionIndex.err # "none" THEN fallbackThrows(insertionIndex.err)
    ELSE [err |-> "none", index |-> insertionIndex.val,
          needsRebalancing |-> TRUE, rebalanceResult |-> rebalanceResult]

\* the rebalancing branch once rebalanceCellIndices has returned
fallbackInsert(position, rebalanceResult) ==
    IF rebalanceResult.err # "none" THEN fallbackThrows(rebalanceResult.err)
    ELSE fallbackReturn(rebalanceResult,
             calculateInsertionIndexAfterRebalancing(
                 position, rebalanceResult, rebalanceResult.jp))

\* try/catch around the first attempt, first being what
\* fractionalIndexBetween(a, b) returned or threw
fallbackCatch(first, cellList, insertPosition, jp) ==
    IF first.err = "none"
    THEN [err |-> "none", index |-> first.val, needsRebalancing |-> FALSE,
          rebalanceResult |-> noRebalance]
    ELSE IF /\ IsCrowdedError(first.err)
            /\ Len(cellList) > 0
            /\ needsRebalancing(cellList, insertPosition)
         THEN fallbackInsert(
                  IF insertPosition = -1 THEN Len(cellList) ELSE insertPosition,
                  rebalanceCellIndices(cellList, jp, "system",
                                       DefaultBufferCells))
         ELSE fallbackThrows(first.err)

\* returns [err, index, needsRebalancing, rebalanceResult]
fractionalIndexBetweenWithFallback(s, t, cellList, insertPosition, jp) ==
    fallbackCatch(fractionalIndexBetween(s, t, jp), cellList, insertPosition,
                  jp)

----------------------------------------------------------------------------
(* Cell operations *)

cellCreated2(id, fractionalIndex, cellType, createdBy) ==
    [name |-> "v2.CellCreated", id |-> id, fractionalIndex |-> fractionalIndex,
     cellType |-> cellType, createdBy |-> createdBy]

\* allCells.findIndex((cell) => cell.id === id): 0-based, -1 when absent
findIndex(list, id) ==
    LET hits == {k \in 1..Len(list) : list[k].id = id}
    IN IF hits = {} THEN -1
       ELSE (CHOOSE k \in hits : \A j \in hits : k <= j) - 1

\* ref?.fractionalIndex || null
refIndex(ref) == IF ref = <<>> THEN <<>> ELSE ref[1].fractionalIndex

\* the CellOperationResult createCellBetween builds from what
\* fractionalIndexBetweenWithFallback returned
cellOperationResult(cellData, result) ==
    IF result.err # "none"
    THEN [err |-> result.err, events |-> <<>>, newCellId |-> cellData.id,
          needsRebalancing |-> FALSE, rebalanceCount |-> 0]
    ELSE [err |-> "none",
          events |-> (IF result.needsRebalancing
                      THEN result.rebalanceResult.events ELSE <<>>)
                     \o <<cellCreated2(cellData.id, result.index,
                                       cellData.cellType, cellData.createdBy)>>,
          newCellId |-> cellData.id,
          needsRebalancing |-> result.needsRebalancing,
          rebalanceCount |-> Len(result.rebalanceResult.newIndices)]

\* createCellBetween without the insert-at-end case for two null references
createCellBetween_NoAtEnd(cellData, cellBefore, cellAfter, cellList, jp) ==
    LET insertPosition ==
            IF cellBefore # <<>> THEN findIndex(cellList, cellBefore[1].id) + 1
            ELSE IF cellAfter # <<>> THEN findIndex(cellList, cellAfter[1].id)
            ELSE Len(cellList)
    IN cellOperationResult(
           cellData,
           fractionalIndexBetweenWithFallback(
               refIndex(cellBefore), refIndex(cellAfter), cellList,
               insertPosition, jp))

\* returns [err, events, newCellId, needsRebalancing, rebalanceCount]
createCellBetween(cellData, cellBefore, cellAfter, cellList, jp) ==
    LET sortedCells == sortCells(cellList)
        lastIndex   == sortedCells[Len(sortedCells)].fractionalIndex
        atEnd       == /\ cellBefore = <<>> /\ cellAfter = <<>>
                       /\ Len(cellList) > 0
                       /\ lastIndex # <<>>
        previousKey == IF atEnd THEN lastIndex ELSE refIndex(cellBefore)
        nextKey     == IF atEnd THEN <<>> ELSE refIndex(cellAfter)
        insertPosition ==
            IF cellBefore # <<>> THEN findIndex(cellList, cellBefore[1].id) + 1
            ELSE IF cellAfter # <<>> THEN findIndex(cellList, cellAfter[1].id)
            ELSE Len(cellList)
    IN cellOperationResult(
           cellData,
           fractionalIndexBetweenWithFallback(
               previousKey, nextKey, cellList, insertPosition, jp))

----------------------------------------------------------------------------
(* Moving a cell *)

\* Number(s) > 0 for a string s over 0-9a-z, as the relational operators
\* convert an index compared with null: decimal digits with an optional
\* exponent, or 0x / 0o / 0b followed by digits of that radix; anything else
\* is NaN
digitsBelow(s, radix) ==
    /\ Len(s) > 0
    /\ \A k \in 1..Len(s) :
          charToValue(s[k]) >= 0 /\ charToValue(s[k]) < radix
someNonZero(s) == \E k \in 1..Len(s) : s[k] # Char0
CharB == BASE36_DIGITS[12]
CharE == BASE36_DIGITS[15]
CharX == BASE36_DIGITS[34]
radixOf(char) ==
    IF char = CharX THEN 16 ELSE IF char = CharO THEN 8
    ELSE IF char = CharB THEN 2 ELSE 0
jsNumberPositive(s) ==
    \/ digitsBelow(s, 10) /\ someNonZero(s)
    \/ \E k \in 2..(Len(s) - 1) :
          /\ s[k] = CharE
          /\ digitsBelow(SubSeq(s, 1, k - 1), 10)
          /\ someNonZero(SubSeq(s, 1, k - 1))
          /\ digitsBelow(SubSeq(s, k + 1, Len(s)), 10)
    \/ /\ Len(s) > 2
       /\ s[1] = Char0
       /\ radixOf(s[2]) # 0
       /\ digitsBelow(SubSeq(s, 3, Len(s)), radixOf(s[2]))
       /\ someNonZero(SubSeq(s, 3, Len(s)))

\* index > key and index < key, key being an index or null (<<>>)
jsGreater(index, key) ==
    IF key = <<>> THEN jsNumberPositive(index) ELSE StrLess(key, index)
jsLess(index, key) ==
    IF key = <<>> THEN FALSE ELSE StrLess(index, key)

\* the "already in the target position" checks of moveCellBetween
alreadyInPosition(cell, cellBefore, cellAfter) ==
    IF cellBefore # <<>> /\ cellAfter # <<>>
    THEN /\ jsGreater(cell.fractionalIndex, refIndex(cellBefore))
         /\ jsLess(cell.fractionalIndex, refIndex(cellAfter))
    ELSE IF cellAfter # <<>>
    THEN jsLess(cell.fractionalIndex, refIndex(cellAfter))
    ELSE IF cellBefore # <<>>
    THEN jsGreater(cell.fractionalIndex, refIndex(cellBefore))
    ELSE FALSE

\* the event moveCellBetween builds from what fractionalIndexBetween returned
moveEventOf(cell, actorId, r) ==
    IF r.err # "none" THEN [err |-> r.err, event |-> <<>>, jp |-> r.jp]
    ELSE [err |-> "none",
          event |-> <<cellMoved2(cell.id, r.val, actorId)>>,
          jp |-> r.jp]

\* returns [err, event, jp]: event is <<>> for null, <<e>> for the event e
moveCellBetween(cell, cellBefore, cellAfter, actorId, jp) ==
    IF cell.fractionalIndex = <<>>
    THEN [err |-> "none", event |-> <<>>, jp |-> jp]
    ELSE IF alreadyInPosition(cell, cellBefore, cellAfter)
    THEN [err |-> "none", event |-> <<>>, jp |-> jp]
    ELSE moveEventOf(cell, actorId,
                     fractionalIndexBetween(refIndex(cellBefore),
                                            refIndex(cellAfter), jp))

\* moveCellWithRebalancing once the direct move has returned or thrown:
\* [err, moveEvent, rebalanceResult, needsRebalancing]
moveOrRebalance(move, list, actorId) ==
    IF move.err = "none" /\ move.event # <<>>
    THEN [err |-> "none", moveEvent |-> move.event,
          rebalanceResult |-> <<>>, needsRebalancing |-> FALSE]
    ELSE IF move.err \notin {"none", "NoStringBetween"}
    THEN [err |-> move.err, moveEvent |-> <<>>,
          rebalanceResult |-> <<>>, needsRebalancing |-> FALSE]
    ELSE IF needsRebalancing(list, -1)
    THEN [err |-> "none", moveEvent |-> <<>>,
          rebalanceResult |->
              <<rebalanceCellIndices(list, move.jp, actorId \o "-rebalance",
                                     DefaultBufferCells)>>,
          needsRebalancing |-> TRUE]
    ELSE [err |-> "none", moveEvent |-> <<>>,
          rebalanceResult |-> <<>>, needsRebalancing |-> FALSE]

moveCellWithRebalancing(cell, cellBefore, cellAfter, list, actorId, jp) ==
    moveOrRebalance(moveCellBetween(cell, cellBefore, cellAfter, actorId, jp),
                    list, actorId)

\* a MoveOperationResult without events
notMoved ==
    [err |-> "none", events |-> <<>>, moved |-> FALSE,
     needsRebalancing |-> FALSE, rebalanceCount |-> 0]

\* the MoveOperationResult moveCellBetweenWithRebalancing builds from what
\* moveCellWithRebalancing returned
moveOperationResult(result) ==
    IF result.err # "none" THEN [notMoved EXCEPT !.err = result.err]
    ELSE IF result.needsRebalancing /\ result.rebalanceResult # <<>>
    THEN IF result.rebalanceResult[1].err # "none"
         THEN [notMoved EXCEPT !.err = result.rebalanceResult[1].err]
         ELSE [err |-> "none",
               events |-> result.rebalanceResult[1].events,
               moved |-> TRUE,
               needsRebalancing |-> TRUE,
               rebalanceCount |-> Len(result.rebalanceResult[1].newIndices)]
    ELSE IF result.moveEvent # <<>>
    THEN [err |-> "none", events |-> result.moveEvent, moved |-> TRUE,
          needsRebalancing |-> FALSE, rebalanceCount |-> 0]
    ELSE notMoved

\* the position the cell is to take in the list
targetPosition(cellBefore, cellAfter, list) ==
    IF cellBefore # <<>> THEN findIndex(list, cellBefore[1].id) + 1
    ELSE IF cellAfter # <<>> THEN findIndex(list, cellAfter[1].id)
    ELSE Len(list) - 1

\* returns [err, events, moved, needsRebalancing, rebalanceCount]; actorId is
\* "" when the caller gives none, and is then left out of the options, so
\* that moveCellWithRebalancing takes its default "user"
moveCellBetweenWithRebalancing(cell, cellBefore, cellAfter, list, actorId, jp) ==
    IF cell.fractionalIndex = <<>> THEN notMoved
    ELSE IF findIndex(list, cell.id)
               = targetPosition(cellBefore, cellAfter, list)
    THEN notMoved
    ELSE moveOperationResult(
             moveCellWithRebalancing(cell, cellBefore, cellAfter, list,
                                     IF actorId # "" THEN actorId ELSE "user",
                                     jp))

----------------------------------------------------------------------------
(* State tables *)

\* A table is a function from the primary keys present to the rows.  A
\* nullable column holds <<>> for NULL and <<v>> for the value v.  Text is a
\* sequence of chunks, so that appends concatenate.

None == <<>>
Some(v) == <<v>>

\* .insert(row).onConflict(key, "replace")
insertReplace(table, key, row) ==
    [k \in DOMAIN table \cup {key} |-> IF k = key THEN row ELSE table[k]]

\* .insert(row).onConflict(key, "ignore")
insertIgnore(table, key, row) ==
    IF key \in DOMAIN table THEN table ELSE insertReplace(table, key, row)

\* .insert(row) with no onConflict clause: a row whose key is already in the
\* table fails the UNIQUE constraint, the commit throws and the table stays
\* as it was
insertNew(table, key, row) ==
    IF key \in DOMAIN table THEN table ELSE insertReplace(table, key, row)

\* .delete().where(cond)
deleteWhere(table, cond(_, _)) ==
    [k \in {x \in DOMAIN table : ~cond(x, table[x])} |-> table[k]]

\* .update(change).where(cond)
updateWhere(table, cond(_, _), change(_)) ==
    [k \in DOMAIN table |->
        IF cond(k, table[k]) THEN change(table[k]) ELSE table[k]]

\* the tables of a fresh store
EmptyDb ==
    [cells |-> <<>>, outputs |-> <<>>, pendingClears |-> <<>>,
     executionQueue |-> <<>>, presence |-> <<>>,
     outputDeltas |-> <<>>, runtimeSessions |-> <<>>]

\* tables.cells.select("id", "fractionalIndex", "cellType")
\*     .orderBy("fractionalIndex", "asc"): the results the query can give.
\* The order names no second column, so rows with equal fractionalIndex come
\* in whatever order the database reads them.
RECURSIVE orderedRows(_, _)
orderedRows(db, ids) ==
    IF ids = {} THEN {<<>>}
    ELSE LET first == {m \in ids :
                          \A k \in ids :
                              ~StrLess(db.cells[k].fractionalIndex,
                                       db.cells[m].fractionalIndex)}
         IN UNION {{<<[id |-> m,
                       fractionalIndex |-> db.cells[m].fractionalIndex,
                       cellType |-> db.cells[m].cellType]>> \o rest :
                       rest \in orderedRows(db, ids \ {m})} : m \in first}

cellReferences(db) == orderedRows(db, DOMAIN db.cells)

----------------------------------------------------------------------------
(* Materializers *)

PreferredMimeTypes ==
    <<"application/vnd.plotly.v1+json",
      "application/vnd.vegalite.v6+json",
      "application/vnd.vegalite.v5+json",
      "application/vnd.vegalite.v4+json",
      "application/vnd.vegalite.v3+json",
      "application/vnd.vegalite.v2+json",
      "application/vnd.vega.v5+json",
      "application/vnd.vega.v4+json",
      "application/vnd.vega.v3+json",
      "application/vnd.jupyter.widget-view+json",
      "application/vnd.jupyter.widget-state+json",
      "application/vnd.dataresource+json",
      "application/vdom.v1+json",
      "application/geo+json",
      "application/json",
      "application/javascript",
      "text/html",
      "image/svg+xml",
      "image/png",
      "image/jpeg",
      "image/gif",
      "text/latex",
      "text/markdown",
      "text/plain">>

ResultPreferenceOrder ==
    <<"text/html", "image/png", "image/jpeg", "image/svg+xml",
      "application/json", "text/plain">>

\* representations map MIME types to containers
\* [type |-> "inline", data |-> text] or [type |-> "artifact", artifactId |-> id];
\* returns <<>> (null) or <<[mimeType, container]>>
selectPrimaryRepresentation(representations, preferredMimeTypes) ==
    LET present == {k \in 1..Len(preferredMimeTypes) :
                       preferredMimeTypes[k] \in DOMAIN representations}
    IN IF present = {} THEN <<>>
       ELSE LET first == CHOOSE k \in present : \A j \in present : k <= j
            IN <<[mimeType |-> preferredMimeTypes[first],
                  container |-> representations[preferredMimeTypes[first]]]>>

\* container.type === "inline" ? String(container.data || "") : ""
containerData(container) ==
    IF container.type = "inline" THEN container.data ELSE <<>>

\* the table operations updateExistingDisplays returns, applied to db; the
\* query that decides whether there is anything to update reads queried, the
\* tables as they were when the materializer was entered
updateExistingDisplays(db, queried, displayId, representations) ==
    LET matches(id, row) == /\ row.displayId = Some(displayId)
                            /\ row.outputType = "multimedia_display"
        existing   == {id \in DOMAIN queried.outputs :
                          matches(id, queried.outputs[id])}
        primaryRep == selectPrimaryRepresentation(representations,
                                                  PreferredMimeTypes)
    IN IF existing = {} THEN db
       ELSE IF primaryRep = <<>> THEN db
       ELSE LET change(row) ==
                    [row EXCEPT !.data = Some(containerData(primaryRep[1].container)),
                                !.mimeType = Some(primaryRep[1].mimeType),
                                !.representations = Some(representations)]
            IN [db EXCEPT !.outputs = updateWhere(db.outputs, matches, change)]

\* cellId || null
orNull(text) == IF text = "" THEN None ELSE Some(text)

\* updatePresence that keeps the row a user already has
updatePresence_KeepFirst(db, userId, cellId) ==
    [db EXCEPT !.presence = insertIgnore(db.presence, userId, orNull(cellId))]

updatePresence(db, userId, cellId) ==
    [db EXCEPT !.presence = insertReplace(db.presence, userId, orNull(cellId))]

\* e = [userId, cellId]; an absent cellId is ""
v1_PresenceSet(db, e) == updatePresence(db, e.userId, e.cellId)

\* applyPendingClear that leaves the pending-clear row in place
applyPendingClear_KeepsMarker(db, cellId) ==
    IF cellId \in DOMAIN db.pendingClears
    THEN [db EXCEPT
            !.outputs = deleteWhere(db.outputs,
                                    LAMBDA id, row : row.cellId = cellId)]
    ELSE db

\* the pending-clear check every output-add materializer starts with
applyPendingClear(db, cellId) ==
    IF cellId \in DOMAIN db.pendingClears
    THEN [db EXCEPT
            !.outputs = deleteWhere(db.outputs,
                                    LAMBDA id, row : row.cellId = cellId),
            !.pendingClears = deleteWhere(db.pendingClears,
                                          LAMBDA id, row : id = cellId)]
    ELSE db

\* the columns of an outputs row the add materializers do not set
outputRow(cellId, outputType, position) ==
    [cellId |-> cellId, outputType |-> outputType, position |-> position,
     streamName |-> None, executionCount |-> None, displayId |-> None,
     data |-> None, artifactId |-> None, mimeType |-> None,
     representations |-> None]

\* e = [id, cellId, position, representations, displayId]
v1_MultimediaDisplayOutputAdded(db, e) ==
    LET cleared == applyPendingClear(db, e.cellId)
        updated == IF e.displayId # None
                   THEN updateExistingDisplays(cleared, db, e.displayId[1],
                                               e.representations)
                   ELSE cleared
        primaryRep == selectPrimaryRepresentation(e.representations,
                                                  PreferredMimeTypes)
        row == [outputRow(e.cellId, "multimedia_display", e.position) EXCEPT
                  !.displayId = e.displayId,
                  !.data = Some(IF primaryRep = <<>> THEN <<>>
                                ELSE containerData(primaryRep[1].container)),
                  !.mimeType = Some(IF primaryRep = <<>> THEN "text/plain"
                                    ELSE primaryRep[1].mimeType),
                  !.representations = Some(e.representations)]
    IN [updated EXCEPT !.outputs = insertReplace(updated.outputs, e.id, row)]

\* e = [displayId, representations]
v1_MultimediaDisplayOutputUpdated(db, e) ==
    updateExistingDisplays(db, db, e.displayId, e.representations)

\* e = [id, cellId, position, representations, executionCount]
v1_MultimediaResultOutputAdded(db, e) ==
    LET cleared == applyPendingClear(db, e.cellId)
        primaryRep == selectPrimaryRepresentation(e.representations,
                                                  ResultPreferenceOrder)
        row == [outputRow(e.cellId, "multimedia_result", e.position) EXCEPT
                  !.executionCount = Some(e.executionCount),
                  !.data = Some(IF primaryRep = <<>> THEN <<>>
                                ELSE containerData(primaryRep[1].container)),
                  !.mimeType = Some(IF primaryRep = <<>> THEN "text/plain"
                                    ELSE primaryRep[1].mimeType),
                  !.representations = Some(e.representations)]
    IN [cleared EXCEPT !.outputs = insertReplace(cleared.outputs, e.id, row)]

\* the data and artifactId columns the terminal, markdown and error
\* materializers derive from content
contentData(content) ==
    IF content.type = "inline" THEN Some(content.data) ELSE None
contentArtifact(content) ==
    IF content.type = "artifact" THEN Some(content.artifactId) ELSE None

\* e = [id, cellId, position, content, streamName]
v1_TerminalOutputAdded(db, e) ==
    LET cleared == applyPendingClear(db, e.cellId)
        row == [outputRow(e.cellId, "terminal", e.position) EXCEPT
                  !.streamName = Some(e.streamName),
                  !.data = contentData(e.content),
                  !.artifactId = contentArtifact(e.content),
                  !.mimeType = Some("text/plain")]
    IN [cleared EXCEPT !.outputs = insertReplace(cleared.outputs, e.id, row)]

\* e = [outputId, content]
v1_TerminalOutputAppended(db, e) ==
    IF e.outputId \notin DOMAIN db.outputs THEN db
    ELSE LET existingOutput == db.outputs[e.outputId]
             newContent == IF e.content.type = "inline" THEN e.content.data
                           ELSE <<>>
             concatenatedData ==
                 (IF existingOutput.data = None THEN <<>>
                  ELSE existingOutput.data[1]) \o newContent
         IN [db EXCEPT !.outputs[e.outputId].data = Some(concatenatedData)]

\* e = [id, outputId, delta, sequenceNumber]; the id is the primary key of
\* the row inserted
v2_TerminalOutputAppended(db, e) ==
    [db EXCEPT !.outputDeltas =
        insertNew(db.outputDeltas, e.id,
                  [outputId |-> e.outputId, delta |-> e.delta,
                   sequenceNumber |-> e.sequenceNumber])]

\* e = [outputId, content]; the output is looked up by its id alone,
\* whatever its type
v1_MarkdownOutputAppended(db, e) ==
    IF e.outputId \notin DOMAIN db.outputs THEN db
    ELSE LET existingOutput == db.outputs[e.outputId]
             newContent == IF e.content.type = "inline" THEN e.content.data
                           ELSE <<>>
             concatenatedData ==
                 (IF existingOutput.data = None THEN <<>>
                  ELSE existingOutput.data[1]) \o newContent
         IN [db EXCEPT !.outputs[e.outputId].data = Some(concatenatedData)]

\* e = [id, outputId, delta, sequenceNumber]; the row goes into the table
\* the terminal deltas are kept in
v2_MarkdownOutputAppended(db, e) ==
    [db EXCEPT !.outputDeltas =
        insertNew(db.outputDeltas, e.id,
                  [outputId |-> e.outputId, delta |-> e.delta,
                   sequenceNumber |-> e.sequenceNumber])]

\* the ids of the delta rows, in the order the rows are inserted
DeltaIdNames == <<"t1", "t2", "t3", "t4", "t5", "t6", "t7", "t8">>
keyRank(id) == CHOOSE n \in 1..Len(DeltaIdNames) : DeltaIdNames[n] = id

\* outputDeltasQuery with the rows in insertion order
outputDeltasQuery_Unordered(db, outputId) ==
    LET keys == {k \in DOMAIN db.outputDeltas :
                    db.outputDeltas[k].outputId = outputId}
    IN [n \in 1..Cardinality(keys) |->
          db.outputDeltas[CHOOSE k \in keys :
              Cardinality({j \in keys : keyRank(j) < keyRank(k)}) = n - 1]]

\* tables.outputDeltas.select().where({ outputId })
\*     .orderBy("sequenceNumber", "asc"); rows with equal sequence numbers
\* in insertion order
outputDeltasQuery(db, outputId) ==
    LET keys == {k \in DOMAIN db.outputDeltas :
                    db.outputDeltas[k].outputId = outputId}
        before(j, k) ==
            \/ db.outputDeltas[j].sequenceNumber
                  < db.outputDeltas[k].sequenceNumber
            \/ /\ db.outputDeltas[j].sequenceNumber
                     = db.outputDeltas[k].sequenceNumber
               /\ keyRank(j) < keyRank(k)
    IN [n \in 1..Cardinality(keys) |->
          db.outputDeltas[CHOOSE k \in keys :
              Cardinality({j \in keys : before(j, k)}) = n - 1]]

\* deltas.reduce((acc, delta) => acc + delta.delta, originalContent)
RECURSIVE applyDeltas(_, _)
applyDeltas(originalContent, deltas) ==
    IF deltas = <<>> THEN originalContent
    ELSE applyDeltas(originalContent \o deltas[1].delta, Tail(deltas))

\* MarkdownOutputAdded without the pending-clear check
v1_MarkdownOutputAdded_NoPendingCheck(db, e) ==
    LET row == [outputRow(e.cellId, "markdown", e.position) EXCEPT
                  !.data = contentData(e.content),
                  !.artifactId = contentArtifact(e.content),
                  !.mimeType = Some("text/markdown")]
    IN [db EXCEPT !.outputs = insertReplace(db.outputs, e.id, row)]

\* e = [id, cellId, position, content]
v1_MarkdownOutputAdded(db, e) ==
    LET cleared == applyPendingClear(db, e.cellId)
        row == [outputRow(e.cellId, "markdown", e.position) EXCEPT
                  !.data = contentData(e.content),
                  !.artifactId = contentArtifact(e.content),
                  !.mimeType = Some("text/markdown")]
    IN [cleared EXCEPT !.outputs = insertReplace(cleared.outputs, e.id, row)]

\* JSON.stringify of the error object carried by an error output
jsonStringify(data) == <<"{">> \o data \o <<"}">>

\* e = [id, cellId, position, content]
v1_ErrorOutputAdded(db, e) ==
    LET cleared == applyPendingClear(db, e.cellId)
        row == [outputRow(e.cellId, "error", e.position) EXCEPT
                  !.data = IF e.content.type = "inline"
                           THEN Some(jsonStringify(e.content.data)) ELSE None,
                  !.artifactId = contentArtifact(e.content),
                  !.mimeType = Some("application/json")]
    IN [cleared EXCEPT !.outputs = insertReplace(cleared.outputs, e.id, row)]

\* e = [cellId, wait, clearedBy]
v1_CellOutputsCleared(db, e) ==
    LET cleared ==
            IF e.wait
            THEN [db EXCEPT !.pendingClears =
                     insertReplace(db.pendingClears, e.cellId,
                                   [clearedBy |-> e.clearedBy])]
            ELSE [db EXCEPT !.outputs =
                     deleteWhere(db.outputs,
                                 LAMBDA id, row : row.cellId = e.cellId)]
    IN IF e.clearedBy # "" THEN updatePresence(cleared, e.clearedBy, e.cellId)
       ELSE cleared

\* e = [id, fractionalIndex, cellType, createdBy]
v2_CellCreated(db, e) ==
    LET row == [cellType |-> e.cellType,
                source |-> <<>>,
                fractionalIndex |-> e.fractionalIndex,
                executionCount |-> None,
                executionState |-> "idle",
                assignedRuntimeSession |-> None,
                lastExecutionDurationMs |-> None,
                createdBy |-> e.createdBy]
    IN updatePresence([db EXCEPT !.cells = insertIgnore(db.cells, e.id, row)],
                      e.createdBy, e.id)

\* e = [sessionId, runtimeId, runtimeType, capabilities]; isActive is not
\* among the columns inserted and takes its default, true.
\* capabilities.availableAiModels is None when the event carries no list, or
\* the list: capabilities.availableAiModels || null
v1_RuntimeSessionStarted(db, e) ==
    [db EXCEPT !.runtimeSessions =
        insertReplace(db.runtimeSessions, e.sessionId,
                      [runtimeId |-> e.runtimeId,
                       runtimeType |-> e.runtimeType,
                       status |-> "starting",
                       isActive |-> TRUE,
                       canExecuteCode |-> e.capabilities.canExecuteCode,
                       canExecuteSql |-> e.capabilities.canExecuteSql,
                       canExecuteAi |-> e.capabilities.canExecuteAi,
                       availableAiModels |->
                           e.capabilities.availableAiModels])]

\* e = [sessionId, status]
v1_RuntimeSessionStatusChanged(db, e) ==
    [db EXCEPT !.runtimeSessions =
        [k \in DOMAIN db.runtimeSessions |->
            IF k = e.sessionId
            THEN [db.runtimeSessions[k] EXCEPT !.status = e.status]
            ELSE db.runtimeSessions[k]]]

\* RuntimeSessionTerminated setting the status only
v1_RuntimeSessionTerminated_StatusOnly(db, e) ==
    [db EXCEPT !.runtimeSessions =
        [k \in DOMAIN db.runtimeSessions |->
            IF k = e.sessionId
            THEN [db.runtimeSessions[k] EXCEPT !.status = "terminated"]
            ELSE db.runtimeSessions[k]]]

\* e = [sessionId]
v1_RuntimeSessionTerminated(db, e) ==
    [db EXCEPT !.runtimeSessions =
        [k \in DOMAIN db.runtimeSessions |->
            IF k = e.sessionId
            THEN [db.runtimeSessions[k] EXCEPT !.status = "terminated",
                                               !.isActive = FALSE]
            ELSE db.runtimeSessions[k]]]

\* actorId || fallback, actorId being "" when the event carries none
actorOr(actorId, fallback) == IF actorId # "" THEN actorId ELSE fallback

RECURSIVE toString36(_)

\* n.toString(36) for an integer n >= 0
toString36(n) ==
    IF n < BASE THEN <<valueToChar(n)>>
    ELSE toString36(n \div BASE) \o <<valueToChar(n % BASE)>>

\* "a" + Math.floor(position).toString(36); position stands for its floor
positionIndex(position) == <<CharA>> \o toString36(position)

\* v1.CellCreated that replaces the row of an id already present
v1_CellCreated_Replace(db, e) ==
    LET row == [cellType |-> e.cellType,
                source |-> <<>>,
                fractionalIndex |-> positionIndex(e.position),
                executionCount |-> None,
                executionState |-> "idle",
                assignedRuntimeSession |-> None,
                lastExecutionDurationMs |-> None,
                createdBy |-> e.createdBy]
    IN updatePresence([db EXCEPT !.cells = insertReplace(db.cells, e.id, row)],
                      actorOr(e.actorId, e.createdBy), e.id)

\* e = [id, cellType, position, createdBy, actorId]
v1_CellCreated(db, e) ==
    LET row == [cellType |-> e.cellType,
                source |-> <<>>,
                fractionalIndex |-> positionIndex(e.position),
                executionCount |-> None,
                executionState |-> "idle",
                assignedRuntimeSession |-> None,
                lastExecutionDurationMs |-> None,
                createdBy |-> e.createdBy]
    IN updatePresence([db EXCEPT !.cells = insertIgnore(db.cells, e.id, row)],
                      actorOr(e.actorId, e.createdBy), e.id)

\* e = [id, source, modifiedBy]
v1_CellSourceChanged(db, e) ==
    updatePresence(
        [db EXCEPT !.cells =
            [k \in DOMAIN db.cells |->
                IF k = e.id THEN [db.cells[k] EXCEPT !.source = e.source]
                ELSE db.cells[k]]],
        e.modifiedBy, e.id)

\* e = [id, cellType, actorId]
v1_CellTypeChanged(db, e) ==
    LET changed == [db EXCEPT !.cells =
                       [k \in DOMAIN db.cells |->
                           IF k = e.id
                           THEN [db.cells[k] EXCEPT !.cellType = e.cellType]
                           ELSE db.cells[k]]]
    IN IF e.actorId # "" THEN updatePresence(changed, e.actorId, e.id)
       ELSE changed

\* v1.CellSourceVisibilityToggled, v1.CellOutputVisibilityToggled and
\* v1.CellAiContextVisibilityToggled, e = [id, actorId]: the column each of
\* them sets is not among the columns kept here
v1_CellVisibilityToggled(db, e) ==
    IF e.actorId # "" THEN updatePresence(db, e.actorId, e.id) ELSE db

\* e = [id, newPosition, actorId]
v1_CellMoved(db, e) ==
    LET moved == [db EXCEPT !.cells =
                     [k \in DOMAIN db.cells |->
                         IF k = e.id
                         THEN [db.cells[k] EXCEPT
                                 !.fractionalIndex = positionIndex(e.newPosition)]
                         ELSE db.cells[k]]]
    IN IF e.actorId # "" THEN updatePresence(moved, e.actorId, e.id)
       ELSE moved

\* e = [id, fractionalIndex, actorId]
v2_CellMoved(db, e) ==
    LET moved == [db EXCEPT !.cells =
                     [k \in DOMAIN db.cells |->
                         IF k = e.id
                         THEN [db.cells[k] EXCEPT
                                 !.fractionalIndex = e.fractionalIndex]
                         ELSE db.cells[k]]]
    IN IF e.actorId # "" THEN updatePresence(moved, e.actorId, e.id)
       ELSE moved

\* v1.CellDeleted that takes the outputs of the cell with it
v1_CellDeleted_Cascade(db, e) ==
    LET deleted == [db EXCEPT
                      !.cells = deleteWhere(db.cells, LAMBDA id, row : id = e.id),
                      !.outputs = deleteWhere(db.outputs,
                                      LAMBDA id, row : row.cellId = e.id)]
    IN IF e.actorId # "" THEN updatePresence(deleted, e.actorId, e.id)
       ELSE deleted

\* e = [id, actorId]
v1_CellDeleted(db, e) ==
    LET deleted == [db EXCEPT
                      !.cells = deleteWhere(db.cells, LAMBDA id, row : id = e.id)]
    IN IF e.actorId # "" THEN updatePresence(deleted, e.actorId, e.id)
       ELSE deleted

\* e = [queueId, cellId, executionCount, requestedBy, actorId]
v1_ExecutionRequested(db, e) ==
    LET row == [cellId |-> e.cellId,
                executionCount |-> e.executionCount,
                requestedBy |-> e.requestedBy,
                status |-> "pending",
                assignedRuntimeSession |-> None,
                startedAt |-> None,
                completedAt |-> None,
                executionDurationMs |-> None]
        queued == [db EXCEPT
                     !.executionQueue =
                         insertIgnore(db.executionQueue, e.queueId, row),
                     !.cells =
                         updateWhere(db.cells,
                             LAMBDA id, r : id = e.cellId,
                             LAMBDA r : [r EXCEPT
                                 !.executionState = "queued",
                                 !.executionCount = Some(e.executionCount)])]
    IN updatePresence(queued, actorOr(e.actorId, e.requestedBy), e.cellId)

\* e = [queueId, runtimeSessionId]
v1_ExecutionAssigned(db, e) ==
    [db EXCEPT !.executionQueue =
        updateWhere(db.executionQueue,
            LAMBDA id, r : id = e.queueId,
            LAMBDA r : [r EXCEPT
                !.status = "assigned",
                !.assignedRuntimeSession = Some(e.runtimeSessionId)])]

\* e = [queueId, cellId, runtimeSessionId, startedAt]
v1_ExecutionStarted(db, e) ==
    [db EXCEPT
        !.executionQueue =
            updateWhere(db.executionQueue,
                LAMBDA id, r : id = e.queueId,
                LAMBDA r : [r EXCEPT !.status = "executing",
                                     !.startedAt = Some(e.startedAt)]),
        !.cells =
            updateWhere(db.cells,
                LAMBDA id, r : id = e.cellId,
                LAMBDA r : [r EXCEPT
                    !.executionState = "running",
                    !.assignedRuntimeSession = Some(e.runtimeSessionId)])]

\* ExecutionCompleted that updates the queue row and leaves the cell alone
v1_ExecutionCompleted_QueueOnly(db, e) ==
    [db EXCEPT
        !.executionQueue =
            updateWhere(db.executionQueue,
                LAMBDA id, r : id = e.queueId,
                LAMBDA r : [r EXCEPT
                    !.status = IF e.status = "success" THEN "completed"
                               ELSE "failed",
                    !.completedAt = Some(e.completedAt),
                    !.executionDurationMs = Some(e.executionDurationMs)])]

\* e = [queueId, cellId, status, completedAt, executionDurationMs]
v1_ExecutionCompleted(db, e) ==
    [db EXCEPT
        !.executionQueue =
            updateWhere(db.executionQueue,
                LAMBDA id, r : id = e.queueId,
                LAMBDA r : [r EXCEPT
                    !.status = IF e.status = "success" THEN "completed"
                               ELSE "failed",
                    !.completedAt = Some(e.completedAt),
                    !.executionDurationMs = Some(e.executionDurationMs)]),
        !.cells =
            updateWhere(db.cells,
                LAMBDA id, r : id = e.cellId,
                LAMBDA r : [r EXCEPT
                    !.executionState = IF e.status = "success" THEN "completed"
                                       ELSE "error",
                    !.lastExecutionDurationMs = Some(e.executionDurationMs)])]

\* e = [queueId, cellId, cancelledBy, actorId]
v1_ExecutionCancelled(db, e) ==
    LET cancelled ==
            [db EXCEPT
                !.executionQueue =
                    updateWhere(db.executionQueue,
                        LAMBDA id, r : id = e.queueId,
                        LAMBDA r : [r EXCEPT !.status = "cancelled"]),
                !.cells =
                    updateWhere(db.cells,
                        LAMBDA id, r : id = e.cellId,
                        LAMBDA r : [r EXCEPT !.executionState = "idle"])]
    IN updatePresence(cancelled, actorOr(e.actorId, e.cancelledBy), e.cellId)

----------------------------------------------------------------------------
(* Inputs of the index algebra *)

\* characters the inputs are drawn from: "0", "1", "y", "z"
SampleChars == {BASE36_DIGITS[1], BASE36_DIGITS[2],
                BASE36_DIGITS[35], BASE36_DIGITS[36]}

\* values randomInt is drawn from: the suffixes "0", "h", "z"
SampleInts == {0, 17, 35}

\* values random() is drawn from, as percent: below and above the threshold
SampleRandoms == {0, 50}

Strings(n) == UNION {[1..m -> SampleChars] : m \in 0..n}

Provider(r, d) == [draws |-> <<[random |-> r, randomInt |-> d]>>, pos |-> 1]

NoArgs == [bufferCells |-> 0, cellBefore |-> <<>>, cellAfter |-> <<>>]

\* the tables of a fresh store
InitTables ==
    /\ cells = EmptyDb.cells
    /\ outputs = EmptyDb.outputs
    /\ pendingClears = EmptyDb.pendingClears
    /\ executionQueue = EmptyDb.executionQueue
    /\ presence = EmptyDb.presence
    /\ outputDeltas = EmptyDb.outputDeltas
    /\ runtimeSessions = EmptyDb.runtimeSessions

\* a run of zeros two characters longer than the other strings drawn: room
\* for several keys above "0"
LongZeroRun == repeat(Char0, MaxLen + 2)
AlgebraStrings == Strings(MaxLen) \cup {LongZeroRun}

InitAlgebra ==
    /\ a \in AlgebraStrings
    /\ b \in AlgebraStrings
    /\ op = "init"
    /\ ret = Ok(<<>>)
    /\ allCells = <<>>
    /\ jitterProvider = zeroJitter
    /\ args = NoArgs
    /\ InitTables

Returned(r) == [err |-> r.err, val |-> r.val]

\* The calls are pure and leave their arguments in place, so a second call in
\* a behaviour reaches nothing new: each action is taken on the inputs drawn.

\* fractionalIndexBetween(a, b, jitterProvider)
CallBetween ==
    /\ op = "init"
    /\ \E r \in SampleRandoms, d \in SampleInts :
          ret' = Returned(fractionalIndexBetween(a, b, Provider(r, d)))
    /\ op' = "between"
    /\ UNCHANGED <<a, b, allCells, jitterProvider, args, tableVars>>

\* fractionalIndexBetween(null, b, jitterProvider)
CallBefore ==
    /\ op = "init"
    /\ \E r \in SampleRandoms, d \in SampleInts :
          ret' = Returned(fractionalIndexBetween(<<>>, b, Provider(r, d)))
    /\ op' = "before"
    /\ UNCHANGED <<a, b, allCells, jitterProvider, args, tableVars>>

\* fractionalIndexBetween(a, null, jitterProvider)
CallAfter ==
    /\ op = "init"
    /\ \E r \in SampleRandoms, d \in SampleInts :
          ret' = Returned(fractionalIndexBetween(a, <<>>, Provider(r, d)))
    /\ op' = "after"
    /\ UNCHANGED <<a, b, allCells, jitterProvider, args, tableVars>>

\* what a call of generateFractionalIndices leaves: the error or the keys
Generated(g) == [err |-> g.err, val |-> g.keys]

\* providers the keys are generated with: no jitter, and the suffixes "0"
\* and "h" on every key
GenerateProviders == {Provider(50, 0), Provider(0, 0), Provider(0, 17)}

\* largest count asked of generateFractionalIndices
MaxGenerate == 3

\* generateFractionalIndices(a, b, n, jitterProvider); ret.val is the list of
\* keys returned, args the count asked for and the provider handed over
CallGenerateFractionalIndices ==
    /\ op = "init"
    /\ \E n \in 1..MaxGenerate, jp \in GenerateProviders :
          /\ ret' = Generated(generateFractionalIndices(a, b, n, jp))
          /\ args' = [n |-> n, jitterProvider |-> jp]
    /\ op' = "generate"
    /\ UNCHANGED <<a, b, allCells, jitterProvider, tableVars>>

NextAlgebra ==
    CallBetween \/ CallBefore \/ CallAfter \/ CallGenerateFractionalIndices

SpecAlgebra == InitAlgebra /\ [][NextAlgebra]_vars

\* inputs that may hold a character outside the alphabet: "0", "1", "z" and
\* the upper-case "A" (ASCII 65)
CharUpperA == 65
MixedChars == {BASE36_DIGITS[1], BASE36_DIGITS[2], BASE36_DIGITS[36],
               CharUpperA}
MixedStrings == UNION {[1..m -> MixedChars] : m \in 0..MaxBadLen}

InitMixedInput ==
    /\ a \in MixedStrings
    /\ b \in MixedStrings
    /\ op = "init"
    /\ ret = Ok(<<>>)
    /\ allCells = <<>>
    /\ jitterProvider = zeroJitter
    /\ args = NoArgs
    /\ InitTables

SpecMixedInput == InitMixedInput /\ [][NextAlgebra]_vars

\* Two providers created from one seed, each driving its own chain
\* prev <- fractionalIndexBetween(prev, null, jitter) from the same start.
\* a holds prev1 and b holds prev2; jitterProvider holds the pair of
\* providers; ret holds, per chain, the indices returned so far.
Seeds == {0, 1, 42}
SeededBounds == {<<>>, <<Char0>>, <<CharM>>, <<CharZ>>}

InitSeeded ==
    /\ a \in SeededBounds
    /\ b = a
    /\ op = "init"
    /\ ret = [first |-> <<>>, second |-> <<>>]
    /\ allCells = <<>>
    /\ \E seed \in Seeds :
          jitterProvider = [first  |-> createTestJitterProvider(seed),
                            second |-> createTestJitterProvider(seed)]
    /\ args = NoArgs
    /\ InitTables

\* idx1 = fractionalIndexBetween(prev1, null, jitter1); prev1 = idx1
CallWithFirst ==
    /\ Len(ret.first) < MaxCalls
    /\ LET r == fractionalIndexBetweenSeeded(a, <<>>, jitterProvider.first)
       IN /\ ret' = [ret EXCEPT !.first = Append(@, Returned(r))]
          /\ a' = IF r.err = "none" THEN r.val ELSE a
          /\ jitterProvider' = [jitterProvider EXCEPT !.first = r.provider]
    /\ op' = "first"
    /\ UNCHANGED <<b, allCells, args, tableVars>>

\* idx2 = fractionalIndexBetween(prev2, null, jitter2); prev2 = idx2
CallWithSecond ==
    /\ Len(ret.second) < MaxCalls
    /\ LET r == fractionalIndexBetweenSeeded(b, <<>>, jitterProvider.second)
       IN /\ ret' = [ret EXCEPT !.second = Append(@, Returned(r))]
          /\ b' = IF r.err = "none" THEN r.val ELSE b
          /\ jitterProvider' = [jitterProvider EXCEPT !.second = r.provider]
    /\ op' = "second"
    /\ UNCHANGED <<a, allCells, args, tableVars>>

NextSeeded == CallWithFirst \/ CallWithSecond

SpecSeeded == InitSeeded /\ [][NextSeeded]_vars

\* A chain of calls prev <- fractionalIndexBetween(prev, null, jitter) from
\* "a", all with one jitter provider, which is a script read cyclically.
\* a holds prev; ret counts the calls made.
ChainLength == 100

\* the draws of a script: no jitter, or jitter with the first digit or one
\* of the two last ("y" makes the next generateKeyAfter extend the key, "z"
\* is skipped by it)
ChainDraws == {[random |-> 50, randomInt |-> 0],
               [random |-> 0, randomInt |-> 0],
               [random |-> 0, randomInt |-> BASE - 2],
               [random |-> 0, randomInt |-> BASE - 1]}
ChainScripts ==
    UNION {{[draws |-> d, pos |-> 1] : d \in [1..n -> ChainDraws]} :
              n \in 1..MaxScript}

InitChain ==
    /\ a = <<CharA>>
    /\ b = <<>>
    /\ op = "init"
    /\ ret = [err |-> "none", val |-> <<>>, calls |-> 0]
    /\ allCells = <<>>
    /\ jitterProvider \in ChainScripts
    /\ args = NoArgs
    /\ InitTables

\* index = fractionalIndexBetween(index, null, jitter)
chainStep(r, calls) == [err |-> r.err, val |-> r.val, calls |-> calls + 1]
CallChain ==
    /\ ret.calls < ChainLength
    /\ ret.err = "none"
    /\ LET r == fractionalIndexBetween(a, <<>>, jitterProvider)
       IN /\ ret' = chainStep(r, ret.calls)
          /\ a' = IF r.err = "none" THEN r.val ELSE a
          /\ jitterProvider' = r.jp
    /\ op' = "chain"
    /\ UNCHANGED <<b, allCells, args, tableVars>>

NextChain == CallChain

SpecChain == InitChain /\ [][NextChain]_vars

----------------------------------------------------------------------------
(* Inputs of the planner and the cell operations *)

CellIdNames == <<"c1", "c2", "c3", "c4", "c5">>
CellIds == {CellIdNames[k] : k \in 1..MaxCells}

\* JS  x < y  on the cell ids drawn: they sort as they are listed
idRank(id) == CHOOSE k \in 1..Len(CellIdNames) : CellIdNames[k] = id
idLess(x, y) == idRank(x) < idRank(y)

\* indices the cells are drawn with: null, "m", "o", "o0"
SampleIndices == {<<>>, <<CharM>>, <<CharO>>, <<CharO, Char0>>}

\* cell lists with pairwise distinct ids, listed in ascending or in
\* descending id order
CellLists ==
    UNION {{[k \in 1..n |-> [id |-> CellIdNames[IF up THEN k ELSE n + 1 - k],
                              fractionalIndex |-> idx[k],
                              cellType |-> "code"]] :
               up \in BOOLEAN, idx \in [1..n -> SampleIndices]} :
              n \in 0..MaxCells}

\* scripted providers: draws at or above the threshold, and below it with
\* the suffixes "0" and "h"
SampleDraws == {[random |-> 50, randomInt |-> 0],
                [random |-> 0, randomInt |-> 0],
                [random |-> 0, randomInt |-> 17]}
JitterScripts ==
    UNION {{[draws |-> d, pos |-> 1] : d \in [1..n -> SampleDraws]} :
              n \in 1..MaxScript}

InitCellOps ==
    /\ a = <<>>
    /\ b = <<>>
    /\ op = "init"
    /\ ret = Ok(<<>>)
    /\ allCells \in CellLists
    /\ jitterProvider \in JitterScripts
    /\ args = NoArgs
    /\ InitTables

\* what the cellReferences query hands to the cell operations: the cells in
\* ascending index order
IsQueryResult(list) ==
    \A i \in 1..(Len(list) - 1) :
        ~StrLess(list[i + 1].fractionalIndex, list[i].fractionalIndex)

NewCell == [id |-> "cNew", cellType |-> "code", createdBy |-> "u1"]

\* rebalanceCellIndices(allCells, { jitterProvider, actorId, bufferCells })
CallRebalance ==
    /\ op = "init"
    /\ \E n \in 0..MaxBuffer :
          LET r == rebalanceCellIndices(allCells, jitterProvider, "u1", n)
          IN /\ ret' = [err |-> r.err, newIndices |-> r.newIndices,
                        events |-> r.events]
             /\ args' = [NoArgs EXCEPT !.bufferCells = n]
    /\ op' = "rebalance"
    /\ UNCHANGED <<a, b, allCells, jitterProvider, tableVars>>

\* createCellBetween(cellData, cellBefore, cellAfter, allCells, jitterProvider)
\* called as documented: with the ordered cell list and two neighbours of it
CallCreateCellBetween ==
    /\ op = "init"
    /\ IsQueryResult(allCells)
    /\ \E pos \in 0..Len(allCells) :
          LET cellBefore == IF pos > 0 THEN <<allCells[pos]>> ELSE <<>>
              cellAfter  == IF pos < Len(allCells)
                            THEN <<allCells[pos + 1]>> ELSE <<>>
          IN /\ ret' = createCellBetween(NewCell, cellBefore, cellAfter,
                                         allCells, jitterProvider)
             /\ args' = [NoArgs EXCEPT !.cellBefore = cellBefore,
                                       !.cellAfter = cellAfter]
    /\ op' = "create"
    /\ UNCHANGED <<a, b, allCells, jitterProvider, tableVars>>

\* createCellBetween(cellData, null, null, allCells, jitterProvider) on a
\* non-empty list, in whatever order the list is (the empty list is among
\* the calls of CallCreateCellBetween)
CallCreateCellAtEnd ==
    /\ op = "init"
    /\ Len(allCells) > 0
    /\ ret' = createCellBetween(NewCell, <<>>, <<>>, allCells, jitterProvider)
    /\ op' = "createAtEnd"
    /\ UNCHANGED <<a, b, allCells, jitterProvider, args, tableVars>>

NextCellOps == CallRebalance \/ CallCreateCellBetween \/ CallCreateCellAtEnd

SpecCellOps == InitCellOps /\ [][NextCellOps]_vars

\* Order validation of a cell list: allCells holds the cells whose indices
\* are handed to validateFractionalIndexOrder, null ("") and invalid ones
\* among them.
OrderIndices ==
    {<<>>, <<CharUpperA>>, <<Char0>>, <<CharM>>, <<CharM, Char0>>}
OrderLists ==
    UNION {{[k \in 1..n |-> [id |-> CellIdNames[k],
                              fractionalIndex |-> idx[k],
                              cellType |-> "code"]] :
               idx \in [1..n -> OrderIndices]} :
              n \in 0..MaxCells}

InitValidate ==
    /\ a = <<>>
    /\ b = <<>>
    /\ op = "init"
    /\ ret = Ok(<<>>)
    /\ allCells \in OrderLists
    /\ jitterProvider = zeroJitter
    /\ args = NoArgs
    /\ InitTables

indicesOf(list) == [k \in 1..Len(list) |-> list[k].fractionalIndex]

\* validateFractionalIndexOrder(allCells.map((c) => c.fractionalIndex))
CallValidateOrder ==
    /\ op = "init"
    /\ ret' = Ok(validateFractionalIndexOrder(indicesOf(allCells)))
    /\ op' = "validateOrder"
    /\ UNCHANGED <<a, b, allCells, jitterProvider, args, tableVars>>

NextValidate == CallValidateOrder

SpecValidate == InitValidate /\ [][NextValidate]_vars

\* Moves: allCells is the cell list, args the cell moved and the two
\* references, each a cell of the list or null.  Indices drawn: null, "5",
\* "m", "m0" ("m" and "m0" leave no room between them).
Char5 == BASE36_DIGITS[6]
MoveIndices == {<<>>, <<Char5>>, <<CharM>>, <<CharM, Char0>>}
MoveLists ==
    UNION {{[k \in 1..n |-> [id |-> CellIdNames[k],
                              fractionalIndex |-> idx[k],
                              cellType |-> "code"]] :
               idx \in [1..n -> MoveIndices]} :
              n \in 1..MaxCells}
MoveProviders == {Provider(50, 0), Provider(0, 0)}

InitMove ==
    /\ a = <<>>
    /\ b = <<>>
    /\ op = "init"
    /\ ret = Ok(<<>>)
    /\ allCells \in MoveLists
    /\ jitterProvider \in MoveProviders
    /\ args = NoArgs
    /\ InitTables

refsOf(list) == {<<>>} \cup {<<list[k]>> : k \in 1..Len(list)}
moveArgs(cell, cellBefore, cellAfter) ==
    [cell |-> cell, cellBefore |-> cellBefore, cellAfter |-> cellAfter]

\* moveCellBetween(cell, cellBefore, cellAfter, actorId, jitterProvider)
CallMoveCellBetween ==
    /\ op = "init"
    /\ \E k \in 1..Len(allCells), cellBefore, cellAfter \in refsOf(allCells) :
          LET r == moveCellBetween(allCells[k], cellBefore, cellAfter, "u1",
                                   jitterProvider)
          IN /\ ret' = [err |-> r.err, event |-> r.event]
             /\ args' = moveArgs(allCells[k], cellBefore, cellAfter)
    /\ op' = "move"
    /\ UNCHANGED <<a, b, allCells, jitterProvider, tableVars>>

\* moveCellBetweenWithRebalancing(cell, cellBefore, cellAfter, allCells,
\*                                actorId, jitterProvider)
CallMoveCellBetweenWithRebalancing ==
    /\ op = "init"
    /\ \E k \in 1..Len(allCells), cellBefore, cellAfter \in refsOf(allCells),
          actorId \in {"u1", ""} :
          LET r == moveCellBetweenWithRebalancing(
                       allCells[k], cellBefore, cellAfter, allCells, actorId,
                       jitterProvider)
          IN /\ ret' = r
             /\ args' = [cell |-> allCells[k], cellBefore |-> cellBefore,
                         cellAfter |-> cellAfter, actorId |-> actorId]
    /\ op' = "moveWithRebalancing"
    /\ UNCHANGED <<a, b, allCells, jitterProvider, tableVars>>

NextMove == CallMoveCellBetween \/ CallMoveCellBetweenWithRebalancing

SpecMove == InitMove /\ [][NextMove]_vars

\* Creations with any two references: allCells is the list the caller
\* holds, and a reference is null, a cell of that list, or a cell the list
\* does not hold (created after the list was read).
AbsentRefs ==
    {<<[id |-> "cX", fractionalIndex |-> <<CharO>>, cellType |-> "code"]>>,
     <<[id |-> "cY", fractionalIndex |-> <<CharO, Char0>>,
        cellType |-> "code"]>>}

\* createCellBetween(cellData, cellBefore, cellAfter, allCells, jitterProvider)
CallCreateCellBetweenRefs ==
    /\ op = "init"
    /\ \E cellBefore, cellAfter \in refsOf(allCells) \cup AbsentRefs :
          /\ ret' = createCellBetween(NewCell, cellBefore, cellAfter,
                                      allCells, jitterProvider)
          /\ args' = [NoArgs EXCEPT !.cellBefore = cellBefore,
                                    !.cellAfter = cellAfter]
    /\ op' = "create"
    /\ UNCHANGED <<a, b, allCells, jitterProvider, tableVars>>

NextCreate == CallCreateCellBetweenRefs

SpecCreate == InitCellOps /\ [][NextCreate]_vars

----------------------------------------------------------------------------
(* The notebook importer *)

\* IpynbConverter._generateCellEvents: allCells is this.cellReferences,
\* args.cellBefore the loop's cellBefore and ret.events the creation events
\* pushed so far. The source and output events pushed between them hold no
\* index and are left out. Cell ids are fresh uuids: the k-th cell gets the
\* k-th name. createCellBetween is called with the default provider, whose
\* draws are free at every call.

NotebookCellTypes == {"code", "markdown"}

InitImport ==
    /\ a = <<>>
    /\ b = <<>>
    /\ op = "init"
    /\ ret = [err |-> "none", events |-> <<>>]
    /\ allCells = <<>>
    /\ jitterProvider = zeroJitter
    /\ args = [cellBefore |-> <<>>]
    /\ InitTables

\* createCellCreatedEvent with the new cell placed before the reference
createCellCreatedEvent_Before(cellType, id, createdBy, cellBefore, cellList, jp) ==
    createCellBetween([id |-> id, cellType |-> cellType, createdBy |-> createdBy],
                      <<>>, cellBefore, cellList, jp)

\* createCellCreatedEvent(cell, createdBy, cellBefore, allCells)
createCellCreatedEvent(cellType, id, createdBy, cellBefore, cellList, jp) ==
    createCellBetween([id |-> id, cellType |-> cellType, createdBy |-> createdBy],
                      cellBefore, <<>>, cellList, jp)

\* creationResult.events.find(e => e.name === 'v2.CellCreated')
\*     ?.args.fractionalIndex || null
createdIndex(events) ==
    LET hits == {k \in 1..Len(events) : events[k].name = "v2.CellCreated"}
    IN IF hits = {} THEN <<>>
       ELSE events[CHOOSE k \in hits : \A j \in hits : k <= j].fractionalIndex

\* one round of the loop over notebook.cells, creationResult being what
\* createCellCreatedEvent returned; a throw ends the import
importRound(cellType, id, creationResult) ==
    IF creationResult.err # "none"
    THEN /\ ret' = [err |-> creationResult.err, events |-> ret.events]
         /\ op' = "importThrew"
         /\ UNCHANGED <<allCells, args>>
    ELSE /\ ret' = [err |-> "none",
                    events |-> ret.events \o creationResult.events]
         /\ allCells' = Append(allCells,
                [id |-> id,
                 fractionalIndex |-> createdIndex(creationResult.events),
                 cellType |-> cellType])
         /\ args' = [cellBefore |->
                <<[id |-> id,
                   fractionalIndex |-> createdIndex(creationResult.events),
                   cellType |-> cellType]>>]
         /\ op' = "import"

ImportCell ==
    /\ op \in {"init", "import"}
    /\ Len(allCells) < MaxCells
    /\ \E cellType \in NotebookCellTypes, d \in SampleDraws :
          importRound(cellType, CellIdNames[Len(allCells) + 1],
              createCellCreatedEvent(cellType, CellIdNames[Len(allCells) + 1],
                  "importer", args.cellBefore, allCells,
                  [draws |-> <<d>>, pos |-> 1]))
    /\ UNCHANGED <<a, b, jitterProvider, tableVars>>

NextImport == ImportCell

SpecImport == InitImport /\ [][NextImport]_vars

----------------------------------------------------------------------------
(* The materialized store *)

\* the tables as the materializers query them
DB == [cells |-> cells, outputs |-> outputs, pendingClears |-> pendingClears,
       executionQueue |-> executionQueue, presence |-> presence,
       outputDeltas |-> outputDeltas, runtimeSessions |-> runtimeSessions]

\* store.commit(event): the tables become what the materializer returns
Commit(db) ==
    /\ cells' = db.cells
    /\ outputs' = db.outputs
    /\ pendingClears' = db.pendingClears
    /\ executionQueue' = db.executionQueue
    /\ presence' = db.presence
    /\ outputDeltas' = db.outputDeltas
    /\ runtimeSessions' = db.runtimeSessions
    /\ UNCHANGED callVars

InitStore ==
    /\ a = <<>>
    /\ b = <<>>
    /\ op = "init"
    /\ ret = Ok(<<>>)
    /\ allCells = <<>>
    /\ jitterProvider = zeroJitter
    /\ args = NoArgs
    /\ InitTables

\* values the committed events are drawn from
StoreCellIds == {"c1", "c2"}
Users == {"u1"}
DisplayIds == {"d1"}
OutputIdNames == <<"o1", "o2", "o3", "o4">>
OutputIds == {OutputIdNames[k] : k \in 1..MaxOutputs}

inline(text) == [type |-> "inline", data |-> text, artifactId |-> ""]
artifact(id) == [type |-> "artifact", data |-> <<>>, artifactId |-> id]

\* representation bundles: plain text; HTML with a plain fallback; and a
\* bundle holding only the AI tool call type, which is on no preference list
RepPlain == [k \in {"text/plain"} |-> inline(<<"one">>)]
RepHtml  == [k \in {"text/html", "text/plain"} |->
                IF k = "text/html" THEN inline(<<"<b>two</b>">>)
                ELSE inline(<<"two">>)]
RepTool  == [k \in {"application/vnd.anode.aitool+json"} |-> inline(<<"call">>)]
SampleRepresentations == {RepPlain, RepHtml, RepTool}

terminalAdded(id, cellId) ==
    [id |-> id, cellId |-> cellId, position |-> 0,
     content |-> inline(<<"hi">>), streamName |-> "stdout"]
markdownAdded(id, cellId) ==
    [id |-> id, cellId |-> cellId, position |-> 0,
     content |-> inline(<<"# md">>)]
errorAdded(id, cellId) ==
    [id |-> id, cellId |-> cellId, position |-> 0,
     content |-> inline(<<"ename", "evalue">>)]
resultAdded(id, cellId, representations) ==
    [id |-> id, cellId |-> cellId, position |-> 0,
     representations |-> representations, executionCount |-> 1]
displayAdded(id, cellId, representations, displayId) ==
    [id |-> id, cellId |-> cellId, position |-> 0,
     representations |-> representations, displayId |-> displayId]

CommitCellOutputsCleared ==
    \E c \in StoreCellIds, w \in BOOLEAN, u \in Users :
        Commit(v1_CellOutputsCleared(DB, [cellId |-> c, wait |-> w,
                                          clearedBy |-> u]))

CommitTerminalOutputAdded ==
    \E id \in OutputIds, c \in StoreCellIds :
        Commit(v1_TerminalOutputAdded(DB, terminalAdded(id, c)))

CommitMarkdownOutputAdded ==
    \E id \in OutputIds, c \in StoreCellIds :
        Commit(v1_MarkdownOutputAdded(DB, markdownAdded(id, c)))

CommitErrorOutputAdded ==
    \E id \in OutputIds, c \in StoreCellIds :
        Commit(v1_ErrorOutputAdded(DB, errorAdded(id, c)))

CommitMultimediaResultOutputAdded ==
    \E id \in OutputIds, c \in StoreCellIds :
        Commit(v1_MultimediaResultOutputAdded(DB, resultAdded(id, c, RepHtml)))

CommitMultimediaDisplayOutputAdded ==
    \E id \in OutputIds, c \in StoreCellIds,
       r \in SampleRepresentations, d \in {None} \cup {Some(x) : x \in DisplayIds} :
        Commit(v1_MultimediaDisplayOutputAdded(DB, displayAdded(id, c, r, d)))

CommitMultimediaDisplayOutputUpdated ==
    \E d \in DisplayIds, r \in SampleRepresentations :
        Commit(v1_MultimediaDisplayOutputUpdated(
                   DB, [displayId |-> d, representations |-> r]))

NextOutputs ==
    \/ CommitCellOutputsCleared
    \/ CommitTerminalOutputAdded
    \/ CommitMarkdownOutputAdded
    \/ CommitErrorOutputAdded
    \/ CommitMultimediaResultOutputAdded
    \/ CommitMultimediaDisplayOutputAdded
    \/ CommitMultimediaDisplayOutputUpdated

SpecOutputs == InitStore /\ [][NextOutputs]_vars

\* Terminal output and its appends: one output id that is added ("o1") and
\* one that never is ("o9").  The v2 appends of an output carry the sequence
\* numbers 1..MaxDeltas, each once, and arrive in any order; the delta with
\* sequence number n carries the text DeltaChunks[n].
AppendOutputIds == {"o1", "o9"}
DeltaChunks == <<"d1", "d2", "d3", "d4", "d5">>
deltaSeqs(outputId) == IF outputId = "o1" THEN 1..MaxDeltas ELSE {1}
seqsPresent(db, outputId) ==
    {db.outputDeltas[k].sequenceNumber :
        k \in {j \in DOMAIN db.outputDeltas :
                  db.outputDeltas[j].outputId = outputId}}

CommitTerminalOutputAppended ==
    \E o \in AppendOutputIds :
        /\ o \in DOMAIN outputs =>
              outputs[o].data # None /\ Len(outputs[o].data[1]) <= MaxAppends
        /\ Commit(v1_TerminalOutputAppended(
                      DB, [outputId |-> o, content |-> inline(<<"+">>)]))

\* the id of the row is fresh
CommitTerminalOutputAppended2 ==
    \E o \in AppendOutputIds :
        \E n \in deltaSeqs(o) \ seqsPresent(DB, o) :
            Commit(v2_TerminalOutputAppended(
                       DB, [id |-> DeltaIdNames[Cardinality(DOMAIN outputDeltas) + 1],
                            outputId |-> o,
                            delta |-> <<DeltaChunks[n]>>,
                            sequenceNumber |-> n]))

\* the deprecated markdown append, on the same outputs
CommitMarkdownOutputAppended ==
    \E o \in AppendOutputIds :
        /\ o \in DOMAIN outputs =>
              outputs[o].data # None /\ Len(outputs[o].data[1]) <= MaxAppends
        /\ Commit(v1_MarkdownOutputAppended(
                      DB, [outputId |-> o, content |-> inline(<<"*">>)]))

\* the markdown delta, with a fresh id or with the id of the delta inserted
\* first, which fails on the primary key
CommitMarkdownOutputAppended2 ==
    \E o \in AppendOutputIds :
        \E n \in deltaSeqs(o) \ seqsPresent(DB, o) :
            \E k \in {1, Cardinality(DOMAIN outputDeltas) + 1} :
                Commit(v2_MarkdownOutputAppended(
                           DB, [id |-> DeltaIdNames[k],
                                outputId |-> o,
                                delta |-> <<DeltaChunks[n]>>,
                                sequenceNumber |-> n]))

CommitTerminalOutputAddedFirst ==
    \E c \in StoreCellIds :
        Commit(v1_TerminalOutputAdded(DB, terminalAdded("o1", c)))

NextAppends ==
    \/ CommitTerminalOutputAddedFirst
    \/ CommitTerminalOutputAppended
    \/ CommitTerminalOutputAppended2
    \/ CommitMarkdownOutputAppended
    \/ CommitMarkdownOutputAppended2

SpecAppends == InitStore /\ [][NextAppends]_vars

\* The ordered cell query over cells created with the indices "m" and "o";
\* ret holds the rows the query returned.
QueryIndices == {<<CharM>>, <<CharO>>}

CommitCellCreatedAt ==
    /\ op = "init"
    /\ \E c \in CellIds, idx \in QueryIndices, u \in Users :
          Commit(v2_CellCreated(DB, cellCreated2(c, idx, "code", u)))

\* store.query(cellReferences$)
QueryCellReferences ==
    /\ op = "init"
    /\ ret' \in cellReferences(DB)
    /\ op' = "cellReferences"
    /\ UNCHANGED <<a, b, allCells, jitterProvider, args, tableVars>>

\* a cell is given another of the indices, by an actor or by nobody
CommitCellMoved2 ==
    /\ op = "init"
    /\ \E c \in CellIds, idx \in QueryIndices, actor \in Users \cup {""} :
          Commit(v2_CellMoved(DB, [id |-> c, fractionalIndex |-> idx,
                                   actorId |-> actor]))

NextQuery == CommitCellCreatedAt \/ CommitCellMoved2 \/ QueryCellReferences

SpecQuery == InitStore /\ [][NextQuery]_vars

\* Runtime session events over two session ids; op names the event committed
\* last and args carries it.
RuntimeSessionIds == {"s1", "s2"}
ChangedStatuses == {"ready", "busy", "restarting"}
\* the lists of AI models an event may carry: none, or one model
AiModelLists == {None, Some(<<"m1">>)}
sessionStarted(sid, models) ==
    [sessionId |-> sid, runtimeId |-> "r1", runtimeType |-> "python3",
     capabilities |-> [canExecuteCode |-> TRUE, canExecuteSql |-> FALSE,
                       canExecuteAi |-> models # None,
                       availableAiModels |-> models]]

\* store.commit(event), the event being recorded in op and args
CommitNamed(db, name, e) ==
    /\ cells' = db.cells
    /\ outputs' = db.outputs
    /\ pendingClears' = db.pendingClears
    /\ executionQueue' = db.executionQueue
    /\ presence' = db.presence
    /\ outputDeltas' = db.outputDeltas
    /\ runtimeSessions' = db.runtimeSessions
    /\ op' = name
    /\ args' = e
    /\ UNCHANGED <<a, b, ret, allCells, jitterProvider>>

CommitRuntimeSessionStarted ==
    \E sid \in RuntimeSessionIds, models \in AiModelLists :
        CommitNamed(v1_RuntimeSessionStarted(DB, sessionStarted(sid, models)),
                    "v1.RuntimeSessionStarted", sessionStarted(sid, models))

CommitRuntimeSessionStatusChanged ==
    \E sid \in RuntimeSessionIds, st \in ChangedStatuses :
        CommitNamed(v1_RuntimeSessionStatusChanged(
                        DB, [sessionId |-> sid, status |-> st]),
                    "v1.RuntimeSessionStatusChanged",
                    [sessionId |-> sid, status |-> st])

CommitRuntimeSessionTerminated ==
    \E sid \in RuntimeSessionIds :
        CommitNamed(v1_RuntimeSessionTerminated(DB, [sessionId |-> sid]),
                    "v1.RuntimeSessionTerminated", [sessionId |-> sid])

NextSessions ==
    \/ CommitRuntimeSessionStarted
    \/ CommitRuntimeSessionStatusChanged
    \/ CommitRuntimeSessionTerminated

SpecSessions == InitStore /\ [][NextSessions]_vars

\* Deleting cells that have outputs, deltas, a pending clear and a queued
\* execution: two cells, one output id, one delta id, one queue id, one user
DeleteCellIds == {"c1", "c2"}

CommitCellCreatedForDelete ==
    \E c \in DeleteCellIds :
        CommitNamed(v2_CellCreated(DB, cellCreated2(c, <<CharM>>, "code", "u1")),
                    "v2.CellCreated", cellCreated2(c, <<CharM>>, "code", "u1"))

CommitTerminalOutputAddedForDelete ==
    \E c \in DeleteCellIds :
        CommitNamed(v1_TerminalOutputAdded(DB, terminalAdded("o1", c)),
                    "v1.TerminalOutputAdded", terminalAdded("o1", c))

\* a second commit of the delta "t1" fails on the primary key: the commit
\* throws and nothing is committed
CommitTerminalOutputAppended2ForDelete ==
    /\ "o1" \in DOMAIN outputs
    /\ IF "t1" \in DOMAIN outputDeltas
       THEN UNCHANGED vars
       ELSE CommitNamed(v2_TerminalOutputAppended(
                            DB, [id |-> "t1", outputId |-> "o1",
                                 delta |-> <<"d1">>, sequenceNumber |-> 1]),
                        "v2.TerminalOutputAppended",
                        [id |-> "t1", outputId |-> "o1",
                         delta |-> <<"d1">>, sequenceNumber |-> 1])

CommitCellOutputsClearedWait ==
    \E c \in DeleteCellIds :
        CommitNamed(v1_CellOutputsCleared(
                        DB, [cellId |-> c, wait |-> TRUE, clearedBy |-> "u1"]),
                    "v1.CellOutputsCleared",
                    [cellId |-> c, wait |-> TRUE, clearedBy |-> "u1"])

CommitExecutionRequestedForDelete ==
    \E c \in DeleteCellIds :
        CommitNamed(v1_ExecutionRequested(
                        DB, [queueId |-> "q1", cellId |-> c, executionCount |-> 1,
                             requestedBy |-> "u1", actorId |-> ""]),
                    "v1.ExecutionRequested",
                    [queueId |-> "q1", cellId |-> c, executionCount |-> 1,
                     requestedBy |-> "u1", actorId |-> ""])

CommitCellDeleted ==
    \E c \in DeleteCellIds, actor \in {"", "u1"} :
        CommitNamed(v1_CellDeleted(DB, [id |-> c, actorId |-> actor]),
                    "v1.CellDeleted", [id |-> c, actorId |-> actor])

NextDelete ==
    \/ CommitCellCreatedForDelete
    \/ CommitTerminalOutputAddedForDelete
    \/ CommitTerminalOutputAppended2ForDelete
    \/ CommitCellOutputsClearedWait
    \/ CommitExecutionRequestedForDelete
    \/ CommitCellDeleted

SpecDelete == InitStore /\ [][NextDelete]_vars

\* Presence: the events that write it, committed by two users on two cells
PresenceUsers == {"u1", "u2"}
PresenceCellIds == {"c1", "c2"}
OptionalUsers == PresenceUsers \cup {""}

CommitPresenceSet ==
    \E u \in PresenceUsers, c \in PresenceCellIds \cup {""} :
        CommitNamed(v1_PresenceSet(DB, [userId |-> u, cellId |-> c]),
                    "v1.PresenceSet", [userId |-> u, cellId |-> c])

CommitCellCreated1 ==
    \E c \in PresenceCellIds, u \in PresenceUsers, actor \in OptionalUsers :
        CommitNamed(v1_CellCreated(
                        DB, [id |-> c, cellType |-> "code", position |-> 0,
                             createdBy |-> u, actorId |-> actor]),
                    "v1.CellCreated",
                    [id |-> c, cellType |-> "code", position |-> 0,
                     createdBy |-> u, actorId |-> actor])

CommitCellDeletedBy ==
    \E c \in PresenceCellIds, actor \in OptionalUsers :
        CommitNamed(v1_CellDeleted(DB, [id |-> c, actorId |-> actor]),
                    "v1.CellDeleted", [id |-> c, actorId |-> actor])

CommitCellOutputsClearedBy ==
    \E c \in PresenceCellIds, w \in BOOLEAN, u \in OptionalUsers :
        CommitNamed(v1_CellOutputsCleared(
                        DB, [cellId |-> c, wait |-> w, clearedBy |-> u]),
                    "v1.CellOutputsCleared",
                    [cellId |-> c, wait |-> w, clearedBy |-> u])

\* the cell whose source and type are changed
EditedCellIds == {"c1"}

CommitCellSourceChanged ==
    \E c \in EditedCellIds, u \in PresenceUsers :
        CommitNamed(v1_CellSourceChanged(
                        DB, [id |-> c, source |-> <<"hi">>, modifiedBy |-> u]),
                    "v1.CellSourceChanged",
                    [id |-> c, source |-> <<"hi">>, modifiedBy |-> u])

CommitCellTypeChanged ==
    \E c \in EditedCellIds, actor \in OptionalUsers :
        CommitNamed(v1_CellTypeChanged(
                        DB, [id |-> c, cellType |-> "markdown",
                             actorId |-> actor]),
                    "v1.CellTypeChanged",
                    [id |-> c, cellType |-> "markdown", actorId |-> actor])

CommitCellVisibilityToggled ==
    \E c \in PresenceCellIds, actor \in OptionalUsers :
        CommitNamed(v1_CellVisibilityToggled(DB, [id |-> c, actorId |-> actor]),
                    "v1.CellSourceVisibilityToggled",
                    [id |-> c, actorId |-> actor])

NextPresence ==
    \/ CommitPresenceSet
    \/ CommitCellCreated1
    \/ CommitCellDeletedBy
    \/ CommitCellOutputsClearedBy
    \/ CommitCellSourceChanged
    \/ CommitCellTypeChanged
    \/ CommitCellVisibilityToggled

SpecPresence == InitStore /\ [][NextPresence]_vars

\* Two v1.CellCreated events at the positions args.p and args.q, for the
\* cells "c1" and "c2"; a v1.CellMoved moves "c1" to another position, which
\* args.p then holds
MaxPosition == 40

InitPosition ==
    /\ a = <<>>
    /\ b = <<>>
    /\ op = "init"
    /\ ret = Ok(<<>>)
    /\ allCells = <<>>
    /\ jitterProvider = zeroJitter
    /\ args \in [p : 0..MaxPosition, q : 0..MaxPosition]
    /\ InitTables

cellCreatedAt(id, position) ==
    [id |-> id, cellType |-> "code", position |-> position,
     createdBy |-> "u1", actorId |-> ""]

CommitCellCreatedAtP ==
    /\ "c1" \notin DOMAIN cells
    /\ Commit(v1_CellCreated(DB, cellCreatedAt("c1", args.p)))

CommitCellCreatedAtQ ==
    /\ "c1" \in DOMAIN cells
    /\ "c2" \notin DOMAIN cells
    /\ Commit(v1_CellCreated(DB, cellCreatedAt("c2", args.q)))

CommitCellMoved1 ==
    \E n \in 0..MaxPosition, actor \in {"", "u1"} :
        /\ cells' = v1_CellMoved(DB, [id |-> "c1", newPosition |-> n,
                                      actorId |-> actor]).cells
        /\ presence' = v1_CellMoved(DB, [id |-> "c1", newPosition |-> n,
                                         actorId |-> actor]).presence
        /\ args' = IF "c1" \in DOMAIN cells THEN [args EXCEPT !.p = n]
                   ELSE args
        /\ UNCHANGED <<a, b, op, ret, allCells, jitterProvider, outputs,
                       pendingClears, executionQueue, outputDeltas,
                       runtimeSessions>>

NextPosition ==
    CommitCellCreatedAtP \/ CommitCellCreatedAtQ \/ CommitCellMoved1

SpecPosition == InitPosition /\ [][NextPosition]_vars

\* values the committed execution events are drawn from; cell "c2" is never
\* created, so events naming it refer to a missing row
QueueIds == {"q1"}
ExecCellIds == {"c1", "c2"}
CreatedCellIds == {"c1"}
SessionIds == {"s1"}
Counts == 1..MaxCount
Durations == {50}
StartTimes == {"T1"}
EndTimes == {"T2"}
CompletionStatuses == {"success", "error", "cancelled"}

executionRequested(q, c, n, u) ==
    [queueId |-> q, cellId |-> c, executionCount |-> n, requestedBy |-> u,
     actorId |-> ""]
executionAssigned(q, sid) == [queueId |-> q, runtimeSessionId |-> sid]
executionStarted(q, c, sid, t) ==
    [queueId |-> q, cellId |-> c, runtimeSessionId |-> sid, startedAt |-> t]
executionCompleted(q, c, st, t, ms) ==
    [queueId |-> q, cellId |-> c, status |-> st, completedAt |-> t,
     executionDurationMs |-> ms]
executionCancelled(q, c, u) ==
    [queueId |-> q, cellId |-> c, cancelledBy |-> u, actorId |-> ""]

CommitCellCreated2 ==
    \E c \in CreatedCellIds, u \in Users :
        Commit(v2_CellCreated(DB, cellCreated2(c, <<CharM>>, "code", u)))

CommitExecutionRequested ==
    \E q \in QueueIds, c \in ExecCellIds, n \in Counts, u \in Users :
        Commit(v1_ExecutionRequested(DB, executionRequested(q, c, n, u)))

CommitExecutionAssigned ==
    \E q \in QueueIds, sid \in SessionIds :
        Commit(v1_ExecutionAssigned(DB, executionAssigned(q, sid)))

CommitExecutionStarted ==
    \E q \in QueueIds, c \in ExecCellIds, sid \in SessionIds, t \in StartTimes :
        Commit(v1_ExecutionStarted(DB, executionStarted(q, c, sid, t)))

CommitExecutionCompleted ==
    \E q \in QueueIds, c \in ExecCellIds, st \in CompletionStatuses,
       t \in EndTimes, ms \in Durations :
        Commit(v1_ExecutionCompleted(DB, executionCompleted(q, c, st, t, ms)))

CommitExecutionCancelled ==
    \E q \in QueueIds, c \in ExecCellIds, u \in Users :
        Commit(v1_ExecutionCancelled(DB, executionCancelled(q, c, u)))

NextExecution ==
    \/ CommitCellCreated2
    \/ CommitExecutionRequested
    \/ CommitExecutionAssigned
    \/ CommitExecutionStarted
    \/ CommitExecutionCompleted
    \/ CommitExecutionCancelled

SpecExecution == InitStore /\ [][NextExecution]_vars

----------------------------------------------------------------------------
(* Properties of the index algebra *)

ValidPair == /\ isValidFractionalIndex(a)
             /\ isValidFractionalIndex(b)
             /\ StrLess(a, b)

\* C1: for valid a < b, whenever between(a, b), with or without the jitter
\* extension, returns k, then a < k < b in ASCII order and k is a valid index.
C1_BetweenOrdered ==
    (op = "between" /\ ValidPair /\ ret.err = "none")
        => /\ StrLess(a, ret.val)
           /\ StrLess(ret.val, b)
           /\ isValidFractionalIndex(ret.val)

\* between returned a key that carries the jitter suffix
C1_Witness ==
    /\ op = "between" /\ ValidPair /\ ret.err = "none"
    /\ ret.val # generateKeyBetween(a, b).val

\* C9: before(b) is a valid index strictly below b, and after(a) is a valid
\* index strictly above a, for every valid b and a.
C9_BeforeAfter ==
    /\ (op = "before" /\ isValidFractionalIndex(b))
          => /\ ret.err = "none"
             /\ isValidFractionalIndex(ret.val)
             /\ StrLess(ret.val, b)
    /\ (op = "after" /\ isValidFractionalIndex(a))
          => /\ ret.err = "none"
             /\ isValidFractionalIndex(ret.val)
             /\ StrLess(a, ret.val)

\* the index holds a character outside 0-9a-z
hasInvalidCharacter(index) ==
    \E k \in 1..Len(index) : charToValue(index[k]) = -1

\* C11: between, before and after throw "Invalid character" whenever an
\* index handed to them holds a character outside 0-9a-z, and never return a
\* result for such input.
C11_InvalidCharacter ==
    /\ (op = "between" /\ (hasInvalidCharacter(a) \/ hasInvalidCharacter(b)))
          => ret.err = "InvalidCharacter"
    /\ (op = "before" /\ hasInvalidCharacter(b))
          => ret.err = "InvalidCharacter"
    /\ (op = "after" /\ hasInvalidCharacter(a))
          => ret.err = "InvalidCharacter"
\* C16: in a chain of 100 sequential prev <- between(prev, null) calls from
\* "a", every produced index has length below 20.
MaxChainIndexLen == 20
C16_ChainLengthBounded ==
    op = "chain" => ret.err = "none" /\ Len(ret.val) < MaxChainIndexLen

\* the hundredth call was made and the chain grew past the length at which
\* jitter stops extending keys
C16_Witness ==
    /\ op = "chain"
    /\ ret.calls = ChainLength
    /\ Len(ret.val) > JitterMaxLen

\* C17: between(null, null) returns "m", or "m" followed by one base-36
\* digit when the jitter source extends the key.
C17_NullNullStartsWithM ==
    (op = "between" /\ a = <<>> /\ b = <<>>)
        => /\ ret.err = "none"
           /\ Len(ret.val) \in {1, 2}
           /\ ret.val[1] = CharM
           /\ isValidFractionalIndex(ret.val)

\* between(null, null) returned "m" with a jitter digit appended
C17_Witness ==
    /\ op = "between" /\ a = <<>> /\ b = <<>>
    /\ ret.err = "none"
    /\ Len(ret.val) = 2

\* C17 as stated: between(null, null) returns exactly "m" for every jitter
\* source.
C17_NullNullExactlyM ==
    (op = "between" /\ a = <<>> /\ b = <<>>) => ret = Ok(<<CharM>>)

\* C18: validateOrder returns true if and only if the valid indices of the
\* list (non-null, non-empty, all characters 0-9a-z), taken in list order,
\* are strictly increasing; the other entries are skipped.
C18_ValidateOrderOnValid ==
    op = "validateOrder" =>
        (ret.val <=>
            \A i, j \in 1..Len(allCells) :
                (/\ i < j
                 /\ isValidFractionalIndex(allCells[i].fractionalIndex)
                 /\ isValidFractionalIndex(allCells[j].fractionalIndex))
                    => StrLess(allCells[i].fractionalIndex,
                               allCells[j].fractionalIndex))

\* validateOrder accepted a list holding an entry that is skipped between
\* two valid ones
C18_Witness ==
    /\ op = "validateOrder"
    /\ ret.val
    /\ \E i \in 2..(Len(allCells) - 1) :
          /\ ~isValidFractionalIndex(allCells[i].fractionalIndex)
          /\ isValidFractionalIndex(allCells[i - 1].fractionalIndex)
          /\ isValidFractionalIndex(allCells[i + 1].fractionalIndex)

\* C18 as stated: validateOrder returns true if and only if every
\* consecutive pair of entries of the list has strictly increasing index.
C18_ValidateOrderIffIncreasing ==
    op = "validateOrder" =>
        (ret.val <=>
            \A i \in 1..(Len(allCells) - 1) :
                StrLess(allCells[i].fractionalIndex,
                        allCells[i + 1].fractionalIndex))


\* Every string above s is at or above s + "0", so some base-36 string lies
\* strictly between s and t exactly when a one-character extension of s does.
SomeStringBetween(s, t) ==
    \E v \in 0..(BASE - 1) : StrLess(s \o <<valueToChar(v)>>, t)

\* C10: for valid a < b, between(a, b) throws "No string exists between" only
\* when no base-36 string lies strictly between a and b, and returns an index
\* in every other case.
C10_EmptyIntervalOnly ==
    (op = "between" /\ ValidPair)
        => /\ ret.err \in {"none", "NoStringBetween"}
           /\ (ret.err = "NoStringBetween") <=> ~SomeStringBetween(a, b)

\* between threw on an adjacent pair
C10_Witness ==
    /\ op = "between" /\ ValidPair
    /\ ret.err = "NoStringBetween"

----------------------------------------------------------------------------
(* Properties of the planner and the cell operations *)

\* the index of a cell once the v2.CellMoved events of a batch are applied
indexAfter(events, cell) ==
    LET moves == {k \in 1..Len(events) :
                     events[k].name = "v2.CellMoved" /\ events[k].id = cell.id}
    IN IF moves = {} THEN cell.fractionalIndex
       ELSE events[CHOOSE k \in moves : \A j \in moves : j <= k].fractionalIndex

cellsAfterMoves(events, list) ==
    [k \in 1..Len(list) |->
        [list[k] EXCEPT !.fractionalIndex = indexAfter(events, list[k])]]

\* the documented cell order: by index, ties by id
docBefore(x, y) ==
    \/ StrLess(x.fractionalIndex, y.fractionalIndex)
    \/ x.fractionalIndex = y.fractionalIndex /\ idLess(x.id, y.id)

\* the ids of the cells in the documented order
orderedIds(list) ==
    [k \in 1..Len(list) |->
        (CHOOSE c \in {list[j] : j \in 1..Len(list)} :
            Cardinality({j \in 1..Len(list) : docBefore(list[j], c)}) = k - 1).id]

\* C5: after rebalance(cells) with bufferCells >= 1, between succeeds on
\* every adjacent pair of the cells' indices in sorted order, on (null, first)
\* and on (last, null).
C5_RoomAfterRebalance ==
    (op = "rebalance" /\ args.bufferCells >= 1 /\ allCells # <<>>)
        => /\ ret.err = "none"
           /\ LET after == sortCells(cellsAfterMoves(ret.events, allCells))
                  n == Len(after)
              IN /\ \A i \in 1..(n - 1) :
                        generateKeyBetween(after[i].fractionalIndex,
                                           after[i + 1].fractionalIndex).err
                            = "none"
                 /\ generateKeyBetween(<<>>, after[1].fractionalIndex).err
                        = "none"
                 /\ generateKeyBetween(after[n].fractionalIndex, <<>>).err
                        = "none"

\* a rebalance of a list that had a crowded pair
C5_Witness ==
    /\ op = "rebalance" /\ args.bufferCells >= 1
    /\ needsRebalancing(allCells, -1)
    /\ Len(ret.events) >= 2

\* C6: for any input cell list, the cell ids sorted by old index are the
\* cell ids sorted by the index after the rebalance events are applied.
C6_OrderPreserved ==
    (op = "rebalance" /\ ret.err = "none")
        => orderedIds(allCells) = orderedIds(cellsAfterMoves(ret.events, allCells))

\* C7: when createCellBetween falls back to rebalancing, the batch is the
\* rebalance v2.CellMoved events followed by one v2.CellCreated whose index
\* lies strictly between the indices cellBefore and cellAfter have after the
\* rebalance, and needsRebalancing is true.
C7_CreateAfterRebalance ==
    (op = "create" /\ ret.err = "none" /\ ret.needsRebalancing)
        => LET n       == Len(ret.events)
               created == ret.events[n]
               moves   == SubSeq(ret.events, 1, n - 1)
           IN /\ n >= 1
              /\ created.name = "v2.CellCreated"
              /\ created.id = ret.newCellId
              /\ \A k \in 1..(n - 1) : moves[k].name = "v2.CellMoved"
              /\ args.cellBefore # <<>> =>
                    StrLess(indexAfter(moves, args.cellBefore[1]),
                            created.fractionalIndex)
              /\ args.cellAfter # <<>> =>
                    StrLess(created.fractionalIndex,
                            indexAfter(moves, args.cellAfter[1]))

\* what the first attempt of createCellBetween, between(previousKey, nextKey)
\* on the two neighbours given, returned or threw
firstAttempt ==
    fractionalIndexBetween(refIndex(args.cellBefore), refIndex(args.cellAfter),
                           jitterProvider)

\* C12: createCellBetween called with a non-empty allCells never throws
\* "No string exists between": whenever the first between throws it, the
\* call returns a result with needsRebalancing set and at least one
\* rebalance v2.CellMoved event ahead of the v2.CellCreated.
C12_NoRawEmptyInterval ==
    (op = "create" /\ Len(allCells) > 0)
        => /\ ret.err # "NoStringBetween"
           /\ firstAttempt.err = "NoStringBetween"
                 => /\ ret.err = "none"
                    /\ ret.needsRebalancing
                    /\ ret.rebalanceCount >= 1
                    /\ Len(ret.events) = ret.rebalanceCount + 1
                    /\ ret.events[1].name = "v2.CellMoved"

\* the cells, in sorted order, hold the indices generated for their positions
holdsTargets(sortedCells, indices, bufferCells) ==
    /\ indices.err = "none"
    /\ \A i \in 1..Len(sortedCells) :
          sortedCells[i].fractionalIndex = indices.keys[i + bufferCells]

\* C19: rebalance emits a CellMoved event for a cell only if the event's
\* index differs from the index the cell holds, at most one per cell; a cell
\* list already holding the target indices yields an empty event list.
C19_OnlyChangedCellsMove ==
    op = "rebalance" =>
        /\ \A k \in 1..Len(ret.events) :
              /\ ret.events[k].name = "v2.CellMoved"
              /\ \E i \in 1..Len(allCells) :
                    /\ allCells[i].id = ret.events[k].id
                    /\ allCells[i].fractionalIndex
                          # ret.events[k].fractionalIndex
              /\ \A j \in 1..Len(ret.events) :
                    ret.events[j].id = ret.events[k].id => j = k
        /\ holdsTargets(sortCells(allCells),
                        generateFractionalIndices(
                            <<>>, <<>>,
                            Len(allCells) + args.bufferCells * 2,
                            jitterProvider),
                        args.bufferCells)
              => ret.events = <<>>

\* a rebalance that moved one cell and left another, which held its target
\* index, without an event
C19_Witness ==
    /\ op = "rebalance"
    /\ ret.err = "none"
    /\ ret.events # <<>>
    /\ Len(ret.events) < Len(allCells)

\* C20: when createCellBetween is called with cellBefore and cellAfter both
\* null and allCells non-empty, the batch ends with the CellCreated event and
\* its index is strictly greater than every index in allCells (a null index
\* counting as the empty string).
C20_CreatedAfterAll ==
    op = "createAtEnd" =>
        /\ ret.err = "none"
        /\ ret.events # <<>>
        /\ LET created == ret.events[Len(ret.events)]
           IN /\ created.name = "v2.CellCreated"
              /\ \A i \in 1..Len(allCells) :
                    StrLess(allCells[i].fractionalIndex,
                            created.fractionalIndex)

\* the call was made on a list whose greatest index is not held by the cell
\* listed last
C20_Witness ==
    /\ op = "createAtEnd"
    /\ ret.err = "none"
    /\ \E i \in 1..(Len(allCells) - 1) :
          StrLess(allCells[Len(allCells)].fractionalIndex,
                  allCells[i].fractionalIndex)

\* the index lies strictly between the indices of the two references, a null
\* reference or index bounding nothing
strictlyBetween(index, cellBefore, cellAfter) ==
    /\ refIndex(cellBefore) # <<>> => StrLess(refIndex(cellBefore), index)
    /\ refIndex(cellAfter) # <<>> => StrLess(index, refIndex(cellAfter))

\* C21: moveCellBetween returns null when the cell has no index or its index
\* already lies within the bounds of the references supplied, and otherwise
\* one CellMoved(v2) for the cell whose fractionalIndex lies strictly between
\* the indices of cellBefore and cellAfter.
C21_MoveBetween ==
    op = "move" =>
        IF \/ args.cell.fractionalIndex = <<>>
           \/ /\ args.cellBefore # <<>> \/ args.cellAfter # <<>>
              /\ strictlyBetween(args.cell.fractionalIndex,
                                 args.cellBefore, args.cellAfter)
        THEN ret = [err |-> "none", event |-> <<>>]
        ELSE /\ ret.err = "none"
             /\ Len(ret.event) = 1
             /\ ret.event[1].name = "v2.CellMoved"
             /\ ret.event[1].id = args.cell.id
             /\ strictlyBetween(ret.event[1].fractionalIndex,
                                args.cellBefore, args.cellAfter)

\* C22: when the direct move fails with "No string exists between" or
\* "Invalid range" and moveCellBetweenWithRebalancing rebalances, applying
\* the returned events leaves the moved cell strictly between cellBefore and
\* cellAfter in index order.
C22_MovedAfterRebalance ==
    (/\ op = "moveWithRebalancing"
     /\ ret.err = "none"
     /\ ret.needsRebalancing
     /\ args.cellBefore # <<>> => args.cellBefore[1].id # args.cell.id
     /\ args.cellAfter # <<>> => args.cellAfter[1].id # args.cell.id
     /\ IsCrowdedError(generateKeyBetween(refIndex(args.cellBefore),
                                          refIndex(args.cellAfter)).err))
        => /\ args.cellBefore # <<>> =>
                StrLess(indexAfter(ret.events, args.cellBefore[1]),
                        indexAfter(ret.events, args.cell))
           /\ args.cellAfter # <<>> =>
                StrLess(indexAfter(ret.events, args.cell),
                        indexAfter(ret.events, args.cellAfter[1]))

----------------------------------------------------------------------------
(* Properties of the output materializers *)

\* the ids of the outputs of a cell
outputsOf(db, cellId) ==
    {id \in DOMAIN db.outputs : db.outputs[id].cellId = cellId}

\* the output-add events, by kind
AddKinds == {"terminal", "markdown", "error", "result", "display", "displayId"}

applyAdd(db, kind, id, cellId) ==
    CASE kind = "terminal" -> v1_TerminalOutputAdded(db, terminalAdded(id, cellId))
      [] kind = "markdown" -> v1_MarkdownOutputAdded(db, markdownAdded(id, cellId))
      [] kind = "error"    -> v1_ErrorOutputAdded(db, errorAdded(id, cellId))
      [] kind = "result"   ->
            v1_MultimediaResultOutputAdded(db, resultAdded(id, cellId, RepPlain))
      [] kind = "display"  ->
            v1_MultimediaDisplayOutputAdded(
                db, displayAdded(id, cellId, RepPlain, None))
      [] kind = "displayId" ->
            v1_MultimediaDisplayOutputAdded(
                db, displayAdded(id, cellId, RepHtml, Some("d1")))

\* ids of the outputs added after a clear: one in use and a fresh one
AddedIds == {"o1", "oX"}

\* kinds of the second add after a clear
SecondKinds == {"terminal", "displayId"}

\* C2: in every state where a cell has outputs, CellOutputsCleared{wait=true}
\* leaves all outputs as they are; the next output-add into the cell deletes
\* the prior outputs; and after that add and a further one the cell's outputs
\* are exactly the outputs added since the clear.
C2_PendingClear ==
    \A c \in StoreCellIds, u \in Users :
        LET cleared == v1_CellOutputsCleared(
                           DB, [cellId |-> c, wait |-> TRUE, clearedBy |-> u])
        IN outputsOf(DB, c) # {} =>
             /\ cleared.outputs = outputs
             /\ \A k1 \in AddKinds, x \in AddedIds :
                   LET first == applyAdd(cleared, k1, x, c)
                   IN /\ outputsOf(first, c) = {x}
                      /\ first.outputs[x] = applyAdd(EmptyDb, k1, x, c).outputs[x]
                      /\ \A k2 \in SecondKinds, y \in AddedIds :
                            LET second == applyAdd(first, k2, y, c)
                            IN /\ outputsOf(second, c) = {x, y}
                               /\ second.outputs[y]
                                     = applyAdd(EmptyDb, k2, y, c).outputs[y]

\* a cell holds outputs and a pending clear: the clear has been committed and
\* the next add has not
C2_Witness ==
    \E c \in StoreCellIds :
        /\ c \in DOMAIN pendingClears
        /\ Cardinality(outputsOf(DB, c)) >= 2

\* C3: after any MultimediaDisplayOutputAdded carrying displayId d, exactly
\* one new output row exists, and every multimedia_display row with displayId
\* d, pre-existing or new, holds the representations of that add.
C3_DisplayAdded ==
    \A id \in OutputIds \cup {"oX"}, c \in StoreCellIds, d \in DisplayIds,
       r \in SampleRepresentations :
        LET after == v1_MultimediaDisplayOutputAdded(
                         DB, displayAdded(id, c, r, Some(d)))
        IN /\ id \in DOMAIN after.outputs
           /\ id \notin DOMAIN outputs =>
                 DOMAIN after.outputs \ DOMAIN outputs = {id}
           /\ \A o \in DOMAIN after.outputs :
                 (/\ after.outputs[o].outputType = "multimedia_display"
                  /\ after.outputs[o].displayId = Some(d))
                     => after.outputs[o].representations = Some(r)

\* the pendingClears rows of a cell
pendingClearsOf(db, cellId) ==
    {k \in DOMAIN db.pendingClears : k = cellId}

\* C13: in every reachable state a cell has at most one pendingClears row,
\* and right after any output-add event into a cell, whatever its kind and
\* id, no pendingClears row of that cell exists (the rows of other cells stay).
C13_PendingClearConsumed ==
    \A c \in StoreCellIds :
        /\ Cardinality(pendingClearsOf(DB, c)) <= 1
        /\ \A k \in AddKinds, x \in AddedIds :
              LET after == applyAdd(DB, k, x, c)
              IN /\ pendingClearsOf(after, c) = {}
                 /\ \A other \in StoreCellIds \ {c} :
                       pendingClearsOf(after, other) = pendingClearsOf(DB, other)

\* both cells wait for their clear: one pendingClears row each
C13_Witness ==
    \A c \in StoreCellIds :
        /\ Cardinality(pendingClearsOf(DB, c)) = 1
        /\ outputsOf(DB, c) # {}

\* C14: in any state, MultimediaDisplayOutputUpdated{displayId=d} creates no
\* output row, sets the representations of every multimedia_display row with
\* displayId d to the representations of the event, and leaves every other
\* row and table as it is.
C14_DisplayUpdated ==
    \A d \in DisplayIds, r \in SampleRepresentations :
        LET after == v1_MultimediaDisplayOutputUpdated(
                         DB, [displayId |-> d, representations |-> r])
        IN /\ DOMAIN after.outputs = DOMAIN outputs
           /\ \A o \in DOMAIN outputs :
                 IF /\ outputs[o].outputType = "multimedia_display"
                    /\ outputs[o].displayId = Some(d)
                 THEN after.outputs[o].representations = Some(r)
                 ELSE after.outputs[o] = outputs[o]
           /\ after.pendingClears = pendingClears
           /\ after.cells = cells
           /\ after.executionQueue = executionQueue
           /\ after.presence = presence

\* the texts of the deltas 1..n, in sequence order
RECURSIVE deltaTexts(_)
deltaTexts(n) == IF n = 0 THEN <<>> ELSE deltaTexts(n - 1) \o <<DeltaChunks[n]>>

\* C23: once the output o is added with data D0 and the v2 appends with the
\* sequence numbers 1..n have arrived, in whatever order, folding the deltas
\* of o sorted by sequenceNumber with applyDeltas yields D0 followed by
\* delta_1 ... delta_n in sequence order.
C23_DeltasInSequenceOrder ==
    \A o \in DOMAIN outputs :
        \A n \in 1..MaxDeltas :
            (outputs[o].data # None /\ seqsPresent(DB, o) = 1..n)
                => applyDeltas(outputs[o].data[1], outputDeltasQuery(DB, o))
                       = outputs[o].data[1] \o deltaTexts(n)

\* all deltas of the output have arrived, the first of them last
C23_Witness ==
    /\ "o1" \in DOMAIN outputs
    /\ seqsPresent(DB, "o1") = 1..MaxDeltas
    /\ \E k \in DOMAIN outputDeltas :
          /\ outputDeltas[k].outputId = "o1"
          /\ outputDeltas[k].sequenceNumber = 1
          /\ \A j \in DOMAIN outputDeltas :
                outputDeltas[j].outputId = "o1" => keyRank(j) <= keyRank(k)

\* C24: the ordered cell query returns the cells by fractionalIndex
\* ascending, and two cells with equal fractionalIndex in ascending order of
\* id.
C24_TiesById ==
    op = "cellReferences" =>
        \A i \in 1..(Len(ret) - 1) :
            \/ StrLess(ret[i].fractionalIndex, ret[i + 1].fractionalIndex)
            \/ /\ ret[i].fractionalIndex = ret[i + 1].fractionalIndex
               /\ idLess(ret[i].id, ret[i + 1].id)

\* the append and add events that name an output or a cell missing from the
\* tables leave the tables as they are
v1AppendSkipped ==
    \A o \in AppendOutputIds \ DOMAIN outputs :
        v1_TerminalOutputAppended(
            DB, [outputId |-> o, content |-> inline(<<"+">>)]) = DB
v2AppendSkipped ==
    \A o \in AppendOutputIds \ DOMAIN outputs :
        v2_TerminalOutputAppended(
            DB, [id |-> DeltaIdNames[Cardinality(DOMAIN outputDeltas) + 1],
                 outputId |-> o, delta |-> <<DeltaChunks[1]>>,
                 sequenceNumber |-> 1]) = DB
addSkipped ==
    \A c \in StoreCellIds \ DOMAIN cells :
        v1_TerminalOutputAdded(DB, terminalAdded("o1", c)) = DB

\* C25: a materializer event that references an output id or cell id absent
\* from the tables returns no table operations and leaves every table
\* unchanged.
C25_UnknownReferenceSkipped ==
    v1AppendSkipped /\ v2AppendSkipped /\ addSkipped

\* C26: after any sequence of runtime session events, at most one runtime
\* session row has isActive = true.
C26_OneActiveSession ==
    Cardinality({sid \in DOMAIN runtimeSessions :
                    runtimeSessions[sid].isActive}) <= 1

\* C27: immediately after RuntimeSessionTerminated for an existing session,
\* that session row has isActive = false and status = terminated.
C27_TerminatedInactive ==
    (op = "v1.RuntimeSessionTerminated"
     /\ args.sessionId \in DOMAIN runtimeSessions)
        => /\ ~runtimeSessions[args.sessionId].isActive
           /\ runtimeSessions[args.sessionId].status = "terminated"

\* a session that had changed its status was terminated while another one
\* stays active
C27_Witness ==
    /\ op = "v1.RuntimeSessionTerminated"
    /\ args.sessionId \in DOMAIN runtimeSessions
    /\ \E sid \in DOMAIN runtimeSessions :
          sid # args.sessionId /\ runtimeSessions[sid].isActive

----------------------------------------------------------------------------
(* Properties of the execution materializers *)

\* the tables after the four lifecycle events of one queue id and cell
lifecycle(db, q, c, n, u, sid, t1, t2, ms) ==
    v1_ExecutionCompleted(
        v1_ExecutionStarted(
            v1_ExecutionAssigned(
                v1_ExecutionRequested(db, executionRequested(q, c, n, u)),
                executionAssigned(q, sid)),
            executionStarted(q, c, sid, t1)),
        executionCompleted(q, c, "success", t2, ms))

\* C8: in every state, ExecutionRequested, ExecutionAssigned,
\* ExecutionStarted and ExecutionCompleted{status=success} for one queue id
\* and cell leave the queue row completed with the given duration, and the
\* cell completed with that duration and the requested executionCount.
C8_Lifecycle ==
    \A q \in QueueIds \cup {"qX"}, c \in DOMAIN cells, n \in Counts,
       u \in Users, sid \in SessionIds, ms \in Durations \cup {7} :
        LET after == lifecycle(DB, q, c, n, u, sid, "T1", "T2", ms)
        IN /\ q \in DOMAIN after.executionQueue
           /\ after.executionQueue[q].status = "completed"
           /\ after.executionQueue[q].executionDurationMs = Some(ms)
           /\ after.cells[c].executionState = "completed"
           /\ after.cells[c].lastExecutionDurationMs = Some(ms)
           /\ after.cells[c].executionCount = Some(n)

\* the four events have been committed for queue id q1 and cell c1
C8_Witness ==
    /\ "q1" \in DOMAIN executionQueue
    /\ "c1" \in DOMAIN cells
    /\ executionQueue["q1"].status = "completed"
    /\ executionQueue["q1"].cellId = "c1"
    /\ executionQueue["q1"].assignedRuntimeSession = Some("s1")
    /\ executionQueue["q1"].startedAt = Some("T1")
    /\ executionQueue["q1"].executionDurationMs = Some(50)
    /\ cells["c1"].executionState = "completed"
    /\ cells["c1"].lastExecutionDurationMs = Some(50)
    /\ cells["c1"].executionCount = Some(executionQueue["q1"].executionCount)

\* C28: in every state, after ExecutionRequested for queue id q and an
\* existing cell c is applied, queue row q has status pending and cell c has
\* executionState queued with the event's executionCount.
C28_RequestedPending ==
    \A q \in QueueIds, c \in DOMAIN cells, n \in Counts, u \in Users :
        LET after == v1_ExecutionRequested(DB, executionRequested(q, c, n, u))
        IN /\ q \in DOMAIN after.executionQueue
           /\ after.executionQueue[q].status = "pending"
           /\ after.cells[c].executionState = "queued"
           /\ after.cells[c].executionCount = Some(n)

\* the cell half of C28: the cell is queued with the event's executionCount
requestedCellQueued ==
    \A q \in QueueIds, c \in DOMAIN cells, n \in Counts, u \in Users :
        LET after == v1_ExecutionRequested(DB, executionRequested(q, c, n, u))
        IN /\ after.cells[c].executionState = "queued"
           /\ after.cells[c].executionCount = Some(n)


\* C29: for every n >= 1 and every pair a < b for which between(a, b)
\* returns, generateFractionalIndices(a, b, n) returns exactly n indices,
\* strictly increasing and each strictly between a and b.
C29_GenerateBetween ==
    (/\ op = "generate"
     /\ ValidPair
     /\ generateKeyBetween(a, b).err = "none")
        => /\ ret.err = "none"
           /\ Len(ret.val) = args.n
           /\ \A i \in 1..Len(ret.val) :
                 /\ StrLess(a, ret.val[i])
                 /\ StrLess(ret.val[i], b)
                 /\ i > 1 => StrLess(ret.val[i - 1], ret.val[i])

\* C30: there is always room to insert between any two indices: for any two
\* distinct valid indices a < b, between(a, b) returns an index.
C30_AlwaysRoom ==
    (op = "between" /\ ValidPair) => ret.err = "none"


----------------------------------------------------------------------------
(* Properties of the importer *)

RECURSIVE materializeCreated(_, _)

\* the tables after the CellCreated events of a log are committed in order
materializeCreated(db, events) ==
    IF events = <<>> THEN db
    ELSE materializeCreated(v2_CellCreated(db, events[1]), Tail(events))

\* C31: the importer emits the CellCreated(v2) events in input cell order
\* with strictly increasing fractionalIndex, each created after the previous
\* cell's reference, so that the materialized cell order is the input order.
C31_ImportKeepsOrder ==
    op \in {"import", "importThrew"} =>
        /\ ret.err = "none"
        /\ Len(ret.events) = Len(allCells)
        /\ \A k \in 1..Len(ret.events) :
              /\ ret.events[k].name = "v2.CellCreated"
              /\ ret.events[k].id = CellIdNames[k]
              /\ ret.events[k].fractionalIndex = allCells[k].fractionalIndex
              /\ k > 1 => StrLess(ret.events[k - 1].fractionalIndex,
                                  ret.events[k].fractionalIndex)
        /\ \A listing \in cellReferences(materializeCreated(EmptyDb, ret.events)) :
              /\ Len(listing) = Len(allCells)
              /\ \A k \in 1..Len(listing) : listing[k].id = CellIdNames[k]

C31_Witness ==
    /\ op = "import"
    /\ Len(allCells) = MaxCells
    /\ Len(ret.events) = MaxCells
    /\ \E k \in 1..MaxCells : Len(ret.events[k].fractionalIndex) > 1


----------------------------------------------------------------------------
(* Properties of the cell materializers *)

\* C32: CellDeleted does not cascade: it removes only the cell row, leaving
\* that cell's outputs, output deltas, pending clear and execution queue rows
\* unchanged.
C32_DeleteNoCascade ==
    [][op' = "v1.CellDeleted" =>
          /\ cells' = [k \in DOMAIN cells \ {args'.id} |-> cells[k]]
          /\ outputs' = outputs
          /\ outputDeltas' = outputDeltas
          /\ pendingClears' = pendingClears
          /\ executionQueue' = executionQueue]_vars

C32_Witness ==
    /\ op = "v1.CellDeleted"
    /\ DOMAIN cells = DeleteCellIds \ {args.id}
    /\ \E o \in DOMAIN outputs :
          /\ outputs[o].cellId = args.id
          /\ \E t \in DOMAIN outputDeltas : outputDeltas[t].outputId = o
    /\ args.id \in DOMAIN pendingClears
    /\ \E q \in DOMAIN executionQueue : executionQueue[q].cellId = args.id


\* the user the event recorded in op and args writes presence for ("" when
\* it writes none) and the cell it names
presenceWriter ==
    CASE op = "v1.PresenceSet" -> args.userId
      [] op = "v1.CellCreated" -> actorOr(args.actorId, args.createdBy)
      [] op \in {"v1.CellDeleted", "v1.CellTypeChanged",
                  "v1.CellSourceVisibilityToggled"} -> args.actorId
      [] op = "v1.CellSourceChanged" -> args.modifiedBy
      [] op = "v1.CellOutputsCleared" -> args.clearedBy
      [] OTHER -> ""
presenceCell ==
    CASE op \in {"v1.PresenceSet", "v1.CellOutputsCleared"} -> args.cellId
      [] op \in {"v1.CellCreated", "v1.CellDeleted", "v1.CellSourceChanged",
                  "v1.CellTypeChanged", "v1.CellSourceVisibilityToggled"}
            -> args.id
      [] OTHER -> ""

\* C33: the presence table holds one row per userId at most, and after a
\* presence-writing event by a user that row holds the cell of the user's
\* most recent such event: the event writes the row of its user and leaves
\* the rows of the other users as they were.
C33_PresenceLatest ==
    [][op' # "init" =>
          /\ presenceWriter' # "" =>
                /\ presenceWriter' \in DOMAIN presence'
                /\ presence'[presenceWriter'] = orNull(presenceCell')
          /\ \A u \in PresenceUsers \ {presenceWriter'} :
                /\ u \in DOMAIN presence' <=> u \in DOMAIN presence
                /\ u \in DOMAIN presence => presence'[u] = presence[u]
          /\ DOMAIN presence' \subseteq PresenceUsers]_vars

C33_Witness ==
    /\ op = "v1.CellDeleted"
    /\ args.actorId = "u2"
    /\ DOMAIN presence = PresenceUsers
    /\ presence["u1"] = Some("c1")
    /\ presence["u2"] = Some("c2")
    /\ "c1" \in DOMAIN cells


----------------------------------------------------------------------------
(* Properties of the rebalance events *)

\* actor ids that end in "-rebalance", over the actors of the model
hasRebalanceSuffix(actorId) ==
    \E actor \in {"", "u1", "user", "system"} : actorId = actor \o "-rebalance"

\* C34: every CellMoved event of a rebalance triggered from a cell operation
\* (here createCellBetween) carries an actorId suffixed with "-rebalance".
C34_RebalanceActorSuffixed ==
    (op = "create" /\ ret.err = "none" /\ ret.needsRebalancing) =>
        \A k \in 1..Len(ret.events) :
            ret.events[k].name = "v2.CellMoved" =>
                hasRebalanceSuffix(ret.events[k].actorId)


\* C35: a CellCreated event (v1 or v2) whose id already exists leaves the
\* existing cell row unchanged.
C35_CreateExistingIgnored ==
    \A c \in DOMAIN cells, u \in PresenceUsers, actor \in OptionalUsers,
       cellType \in {"code", "markdown"} :
        /\ \A position \in 0..1 :
              v1_CellCreated(DB, [id |-> c, cellType |-> cellType,
                                  position |-> position, createdBy |-> u,
                                  actorId |-> actor]).cells = cells
        /\ \A index \in {<<CharM>>, <<CharA, Char0>>} :
              v2_CellCreated(DB, cellCreated2(c, index, cellType, u)).cells
                  = cells

\* a v1.CellCreated by another creator was committed on a cell that exists
C35_Witness ==
    /\ op = "v1.CellCreated"
    /\ args.id \in DOMAIN cells
    /\ cells[args.id].createdBy # args.createdBy


\* C40: the v1.CellCreated position-to-index mapping preserves order on the
\* integer positions 0 <= p < q: the index for p is strictly below the index
\* for q, and both are valid indices.
C40_PositionOrderPreserved ==
    (DOMAIN cells = {"c1", "c2"} /\ args.p < args.q) =>
        /\ StrLess(cells["c1"].fractionalIndex, cells["c2"].fractionalIndex)
        /\ isValidFractionalIndex(cells["c1"].fractionalIndex)
        /\ isValidFractionalIndex(cells["c2"].fractionalIndex)


----------------------------------------------------------------------------
(* A notebook edited through the cell operations *)

\* Each operation is applied through the events it returns, committed to the
\* tables in order; allCells is the notebook as the cellReferences query
\* lists it after the commit. The k-th cell created
\* is named NotebookIdNames[k]. The operations are called without jitter.
\* The edits drawn: a cell is created at the end or in the gap behind the
\* second cell, the first cell is moved to the end and the fourth into that
\* gap, the references being the two cells around the gap once the moved cell
\* is taken out of the list. args.calls counts the operations called.
\* Editing stops after MaxEdits operations, at MaxNotebookCells cells or when
\* an index is longer than MaxEditIndexLen.
NotebookIdNames == <<"n1", "n2", "n3", "n4", "n5", "n6", "n7", "n8">>

\* number of operations called on the notebook
MaxEdits == 14

MaxNotebookCells == 6
MaxEditIndexLen == 2

noJitter == [draws |-> <<[random |-> 50, randomInt |-> 0]>>, pos |-> 1]

InitEdits ==
    /\ a = <<>>
    /\ b = <<>>
    /\ op = "init"
    /\ ret = Ok(<<>>)
    /\ allCells = <<>>
    /\ jitterProvider = noJitter
    /\ args = [calls |-> 0]
    /\ InitTables

EditGaps(list) == {pos \in {2, Len(list)} : pos <= Len(list)}
\* the moves drawn, as <<cell, gap>>: the first cell to the end, the fourth
\* cell into the gap behind the second (gaps counted without the moved cell)
EditMoves(list) ==
    {m \in {<<1, Len(list) - 1>>, <<4, 2>>} : m[1] <= Len(list)}
canEdit(list) ==
    /\ Len(list) < MaxNotebookCells
    /\ \A k \in 1..Len(list) : Len(list[k].fractionalIndex) <= MaxEditIndexLen

\* the list without its k-th cell
without(list, k) == SubSeq(list, 1, k - 1) \o SubSeq(list, k + 1, Len(list))

\* the cell before and the cell after the gap at pos, 0 being the gap before
\* the first cell
gapBefore(list, pos) == IF pos > 0 THEN <<list[pos]>> ELSE <<>>
gapAfter(list, pos) == IF pos < Len(list) THEN <<list[pos + 1]>> ELSE <<>>

\* store.commit(event) for an event of the cell operations
materialize(db, e) ==
    IF e.name = "v2.CellCreated" THEN v2_CellCreated(db, e)
    ELSE v2_CellMoved(db, e)

\* events.forEach((event) => store.commit(event))
RECURSIVE commitAll(_, _)
commitAll(db, events) ==
    IF events = <<>> THEN db
    ELSE commitAll(materialize(db, events[1]), Tail(events))

\* the tables become db and the notebook is queried again
commitAndQuery(db) ==
    /\ cells' = db.cells
    /\ outputs' = db.outputs
    /\ pendingClears' = db.pendingClears
    /\ executionQueue' = db.executionQueue
    /\ presence' = db.presence
    /\ outputDeltas' = db.outputDeltas
    /\ runtimeSessions' = db.runtimeSessions
    /\ allCells' \in cellReferences(db)

\* createCellBetweenAndCommit once createCellBetween has returned or thrown
applyCreated(result) ==
    IF result.err # "none"
    THEN /\ op' = "createThrew"
         /\ UNCHANGED <<allCells, tableVars>>
    ELSE /\ op' = "created"
         /\ commitAndQuery(commitAll(DB, result.events))

\* the event of moveCellBetween, if any, is committed
applyMoved(r) ==
    IF r.err # "none"
    THEN /\ op' = "moveThrew"
         /\ UNCHANGED <<allCells, tableVars>>
    ELSE IF r.event = <<>>
    THEN /\ op' = "notMoved"
         /\ UNCHANGED <<allCells, tableVars>>
    ELSE /\ op' = "moved"
         /\ commitAndQuery(commitAll(DB, r.event))

\* moveCellBetweenAndCommit once moveCellBetweenWithRebalancing has returned
\* or thrown
applyMovedWithRebalancing(result) ==
    IF result.err # "none"
    THEN /\ op' = "moveAndCommitThrew"
         /\ UNCHANGED <<allCells, tableVars>>
    ELSE /\ op' = IF result.moved THEN "movedAndCommitted"
                  ELSE "notMovedAndCommitted"
         /\ commitAndQuery(commitAll(DB, result.events))

\* createCellBetweenAndCommit(store, cellData, cellBefore, cellAfter,
\*                            allCells, jitterProvider)
EditCreateCellBetween ==
    /\ args.calls < MaxEdits
    /\ canEdit(allCells)
    /\ \E pos \in EditGaps(allCells) :
          applyCreated(
              createCellBetween(
                  [id |-> NotebookIdNames[Len(allCells) + 1],
                   cellType |-> "code", createdBy |-> "u1"],
                  gapBefore(allCells, pos), gapAfter(allCells, pos),
                  allCells, jitterProvider))
    /\ args' = [calls |-> args.calls + 1]
    /\ UNCHANGED <<a, b, ret, jitterProvider>>

\* moveCellBetween(cell, cellBefore, cellAfter, actorId, jitterProvider) and
\* store.commit of the event returned
EditMoveCellBetween ==
    /\ args.calls < MaxEdits
    /\ canEdit(allCells)
    /\ \E m \in EditMoves(allCells) :
          applyMoved(
              moveCellBetween(allCells[m[1]],
                              gapBefore(without(allCells, m[1]), m[2]),
                              gapAfter(without(allCells, m[1]), m[2]),
                              "u1", jitterProvider))
    /\ args' = [calls |-> args.calls + 1]
    /\ UNCHANGED <<a, b, ret, jitterProvider>>

\* moveCellBetweenAndCommit(store, cell, cellBefore, cellAfter, allCells,
\*                          actorId, jitterProvider)
EditMoveCellBetweenAndCommit ==
    /\ args.calls < MaxEdits
    /\ canEdit(allCells)
    /\ \E m \in EditMoves(allCells) :
          applyMovedWithRebalancing(
              moveCellBetweenWithRebalancing(
                  allCells[m[1]],
                  gapBefore(without(allCells, m[1]), m[2]),
                  gapAfter(without(allCells, m[1]), m[2]),
                  allCells, "u1", jitterProvider))
    /\ args' = [calls |-> args.calls + 1]
    /\ UNCHANGED <<a, b, ret, jitterProvider>>

NextEdits ==
    \/ EditCreateCellBetween
    \/ EditMoveCellBetween
    \/ EditMoveCellBetweenAndCommit

SpecEdits == InitEdits /\ [][NextEdits]_vars

\* C36: starting from an empty notebook, after any sequence of
\* createCellBetween and moveCellBetween calls whose references are adjacent
\* cells of the current state, each applied through its returned events, all
\* cell indices are valid base-36 strings and pairwise distinct.
C36_IndicesValidDistinct ==
    \A i, j \in 1..Len(allCells) :
        /\ isValidFractionalIndex(allCells[i].fractionalIndex)
        /\ i # j => allCells[i].fractionalIndex # allCells[j].fractionalIndex

-----------------------------------------------------------------------------
(* Properties of the execution queue *)

\* the statuses an execution ends in
TerminalStatuses == {"completed", "failed", "cancelled"}

\* C37: once an execution queue row is completed, failed or cancelled, no
\* later execution event for that queue id changes its status.
C37_TerminalStatusKept ==
    [][\A q \in DOMAIN executionQueue :
          executionQueue[q].status \in TerminalStatuses
              => executionQueue'[q].status = executionQueue[q].status]_vars

-----------------------------------------------------------------------------
(* Properties of the pending clears *)

\* C38: after CellOutputsCleared{wait=false} on a cell no PendingClear row
\* for that cell remains, whatever the store held before the event.
C38_ClearDropsPending ==
    \A c \in StoreCellIds, u \in Users :
        c \notin DOMAIN v1_CellOutputsCleared(
                            DB, [cellId |-> c, wait |-> FALSE,
                                 clearedBy |-> u]).pendingClears

-----------------------------------------------------------------------------
(* Properties of the terminated runtime sessions *)

\* the session has been terminated: RuntimeSessionTerminated is the only
\* event that clears isActive
terminatedSession(sid) ==
    /\ sid \in DOMAIN runtimeSessions
    /\ ~runtimeSessions[sid].isActive

\* C39: once a runtime session has been terminated, every later
\* RuntimeSessionStatusChanged for that sessionId leaves it with status
\* terminated and isActive = false.
C39_TerminatedStays ==
    [][(/\ op' = "v1.RuntimeSessionStatusChanged"
        /\ terminatedSession(args'.sessionId))
          => /\ runtimeSessions'[args'.sessionId].status = "terminated"
             /\ ~runtimeSessions'[args'.sessionId].isActive]_vars

====
